---- MODULE Spec2Model ----
(***************************************************************************)
(* A model of the data transforms of the "Citizens of NEAR" dashboard:     *)
(*   - get_decimals, get_price, get_price_df, get_rewards_by_token and     *)
(*     get_pool_deposit_withdraws of near/finance/fin_utils.py             *)
(*   - gini of near/gov/gov_utils.py and near/journey/journey_utils.py     *)
(*                                                                         *)
(* Numbers.  pandas/numpy compute in float64.  A float is modelled as a    *)
(* decimal  m * 10^e  (record "num", m >= 0 an integer without trailing    *)
(* zeros), as +infinity ("inf") or as the null value NaN ("nan").  Only    *)
(* the RANGE of float64 is modelled (overflow to inf above 1e308 and       *)
(* underflow to 0.0 below 1e-323), not its 53-bit rounding.                *)
(*                                                                         *)
(* Strings.  A numeric string is a sequence of one-character strings;      *)
(* a timestamp string is the number of hours since the epoch it denotes,   *)
(* and a "%Y-%m-%d" string is the number of the calendar day.              *)
(***************************************************************************)
EXTENDS Integers, Sequences, FiniteSets, TLC

VARIABLES
    fn,           \* the entry point running: get_rewards_by_token or get_pool_deposit_withdraws
    ft,           \* the token metadata table (ref_data["ft"]["df"])
    dfs,          \* the amount rows of dfs[...] handed to the entry point
    price_cache,  \* st.cache of get_price: token id -> Cached(the DataFrame), or NotCached
    pc,           \* position of the call
    table,        \* rewards_by_token / pool_deposit_withdraws, the working table
    token_ids,    \* get_price_df: token_ids
    token_list,   \* get_price_df: token_list
    zip_i,        \* get_price_df: position of the zip loop
    price_dfs,    \* get_price_df: price_dfs
    price_df,     \* the concatenated price table
    exc,          \* the exception that ended the call, "" when none
    precorrection,    \* get_decimals called on its own: its precorrection argument
    requested,        \* get_decimals called on its own: its token_ids argument
    conversions,      \* get_decimals called on its own: the returned table
    converted,        \* raw amounts divided by the returned conversion factors
    array,            \* gini: the caller's array
    gini_gov,         \* gini of gov_utils: returned value
    gini_journey,     \* gini of journey_utils: returned value
    gini_pc,          \* gini: position
    scale,            \* gini of a scaled array: the factor k of k * array
    gini_gov_scaled,      \* gini of gov_utils: returned value for k * array
    gini_journey_scaled,  \* gini of journey_utils: returned value for k * array
    chart_fn,         \* chart builders: the builder called
    chart_input,      \* chart builders: the arguments of the call
    chart,            \* chart builders: the returned chart, NoChart before the call
    selection,        \* the chart's hover selection
    pointer,          \* where the pointer is over the rendered chart
    indexer,          \* get_validator_epochs: the pages the indexer serves
    epochs_requests,  \* get_validator_epochs: the GET requests made so far
    epochs_data,      \* get_validator_epochs: data
    epochs_pages,     \* get_validator_epochs: pages
    epochs_i,         \* get_validator_epochs: i
    epochs_pc,        \* get_validator_epochs: position
    epochs_df,        \* get_validator_epochs: the returned df
    clock,            \* st.cache: seconds on the cache timer
    mem_cache,        \* st.cache: key -> the stored entry, or NoEntry
    upstream,         \* st.cache: key -> the version of the data the source serves
    fetches,          \* st.cache: key -> upstream requests made so far
    render,           \* st.cache: each render's position in its cached call
    page,             \* page scripts: the page being rendered
    page_in,          \* page scripts: what the user entered in the page's widgets
    page_pc,          \* page scripts: position of the script run
    page_env,         \* page scripts: the script's variables the later lines read
    page_out,         \* page scripts: the elements written to the page so far
    page_exc,         \* page scripts: the exception that ended the run, "" when none
    queries           \* page scripts: the calls of the Flipside loader made so far

vars == << fn, ft, dfs, price_cache, pc, table, token_ids, token_list, zip_i,
           price_dfs, price_df, exc, precorrection, requested, conversions,
           converted, array, gini_gov, gini_journey, gini_pc, scale,
           gini_gov_scaled, gini_journey_scaled, chart_fn, chart_input, chart,
           selection, pointer, indexer, epochs_requests, epochs_data,
           epochs_pages, epochs_i, epochs_pc, epochs_df, clock, mem_cache, upstream,
           fetches, render, page, page_in, page_pc, page_env, page_out, page_exc,
           queries >>

finVars == << fn, ft, dfs, price_cache, pc, table, token_ids, token_list, zip_i,
              price_dfs, price_df, exc >>
decVars == << precorrection, requested, conversions, converted >>
giniVars == << array, gini_gov, gini_journey, gini_pc, scale, gini_gov_scaled,
              gini_journey_scaled >>
chartVars == << chart_fn, chart_input, chart, selection, pointer >>
epochsVars == << indexer, epochs_requests, epochs_data, epochs_pages, epochs_i,
                epochs_pc, epochs_df >>
cacheVars == << clock, mem_cache, upstream, fetches, render >>
pageVars == << page, page_in, page_pc, page_env, page_out, page_exc, queries >>

-----------------------------------------------------------------------------
(* Bounds of the model *)

\* longest token_ids argument of a get_decimals call of its own
MaxRequested == 2

\* longest array handed to gini
MaxArrayLen == 3

\* longest amount table handed to an entry point
MaxRows == 3

-----------------------------------------------------------------------------
(* float64 values *)

\* largest n with 10.0 ** n finite in float64
Float64MaxExp10 == 308
\* smallest n with 10.0 ** n different from 0.0 in float64 (a denormal)
Float64MinExp10 == -323

Num(m, e) == [k |-> "num", m |-> m, e |-> e]
INF == [k |-> "inf", m |-> 0, e |-> 0]
NaN == [k |-> "nan", m |-> 0, e |-> 0]
Zero == Num(0, 0)
\* a column the table does not have
NoColumn == [k |-> "absent", m |-> 0, e |-> 0]

IsNum(v) == v.k = "num"

RECURSIVE Normalize(_, _)
Normalize(m, e) ==
    IF m = 0 THEN Zero
    ELSE IF m % 10 = 0 THEN Normalize(m \div 10, e + 1)
    ELSE Num(m, e)

RECURSIVE NumDigits(_)
NumDigits(m) == IF m < 10 THEN 1 ELSE 1 + NumDigits(m \div 10)

RECURSIVE LeadingDigit(_)
LeadingDigit(m) == IF m < 10 THEN m ELSE LeadingDigit(m \div 10)

\* the float64 that the real number m * 10^e is stored as: its range only
Float64(m, e) ==
    IF m = 0 THEN Zero
    ELSE LET top == e + NumDigits(m) - 1
         IN  IF top > Float64MaxExp10 THEN INF
             ELSE IF top = Float64MaxExp10 /\ LeadingDigit(m) >= 2 THEN INF
             ELSE IF top < Float64MinExp10 THEN Zero
             ELSE Normalize(m, e)

\* a / b of two float64 Series elements, b a power of ten, 0.0 or inf
FloatDiv(a, b) ==
    IF a.k = "nan" \/ b.k = "nan" THEN NaN
    ELSE IF a.k = "inf" THEN (IF b.k = "inf" THEN NaN ELSE INF)
    ELSE IF b.k = "inf" THEN Zero
    ELSE IF b.m = 0 THEN (IF a.m = 0 THEN NaN ELSE INF)
    ELSE Float64(a.m, a.e - b.e)

\* a * b of two float64 Series elements
FloatMul(a, b) ==
    IF a.k = "nan" \/ b.k = "nan" THEN NaN
    ELSE IF a.k = "inf" \/ b.k = "inf"
         THEN (IF (a.k = "num" /\ a.m = 0) \/ (b.k = "num" /\ b.m = 0) THEN NaN ELSE INF)
    ELSE Float64(a.m * b.m, a.e + b.e)

-----------------------------------------------------------------------------
(* strings *)

DigitValue(c) ==
    CASE c = "0" -> 0 [] c = "1" -> 1 [] c = "2" -> 2 [] c = "3" -> 3
      [] c = "4" -> 4 [] c = "5" -> 5 [] c = "6" -> 6 [] c = "7" -> 7
      [] c = "8" -> 8 [] c = "9" -> 9

RECURSIVE DigitsValue(_)
DigitsValue(s) ==
    IF s = << >> THEN 0
    ELSE DigitsValue(SubSeq(s, 1, Len(s) - 1)) * 10 + DigitValue(s[Len(s)])

\* the characters of s other than the decimal point
Digits(s) == SelectSeq(s, LAMBDA c : c # ".")

\* number of characters after the decimal point of s, 0 when it has none
FractionLen(s) ==
    IF \E i \in DOMAIN s : s[i] = "."
    THEN Len(s) - (CHOOSE i \in DOMAIN s : s[i] = ".")
    ELSE 0

\* pd.to_numeric of an integer string: an int64
to_numeric_int(s) == DigitsValue(s)

\* pd.to_numeric of a decimal string, used as a float64
to_numeric(s) == Float64(DigitsValue(Digits(s)), 0 - FractionLen(s))

\* pd.to_datetime of a timestamp string
to_datetime(h) == [day |-> h \div 24, tod |-> h % 24]

\* Series.dt.strftime("%Y-%m-%d")
strftime_Ymd(ts) == ts.day

\* pd.to_datetime of a "%Y-%m-%d" string
to_datetime_Ymd(d) == [day |-> d, tod |-> 0]

-----------------------------------------------------------------------------
(* sequences as DataFrames *)

Range(s) == { s[i] : i \in DOMAIN s }

\* Series.unique(): the distinct values in order of first appearance
RECURSIVE unique(_)
unique(s) ==
    IF s = << >> THEN << >>
    ELSE LET front == unique(SubSeq(s, 1, Len(s) - 1))
         IN  IF s[Len(s)] \in Range(front) THEN front ELSE Append(front, s[Len(s)])

\* pd.concat of a sequence of frames
RECURSIVE concat(_)
concat(frames) ==
    IF frames = << >> THEN << >>
    ELSE frames[1] \o concat(Tail(frames))

Min(a, b) == IF a < b THEN a ELSE b

-----------------------------------------------------------------------------
(* TokenDecimalNormalizer: get_decimals *)

\* get_decimals' default precorrection
DefaultPrecorrection == 18

\* a faulty variant of Pow10Float: an integer power, which has no value below 1
Pow10Integer(d) ==
    IF d > Float64MaxExp10 THEN INF
    ELSE IF d < 0 THEN Zero
    ELSE Num(1, d)

\* 10 ** float(d) in float64
Pow10Float(d) ==
    IF d > Float64MaxExp10 THEN INF
    ELSE IF d < Float64MinExp10 THEN Zero
    ELSE Num(1, d)

\* a faulty variant of effective_decimals: a falsy precorrection falls back to the default
effective_decimals_default(raw, pre) ==
    IF pre # 0 THEN raw - pre ELSE raw - DefaultPrecorrection

\* the effective decimals of a metadata row
effective_decimals(raw, pre) == IF pre # 0 THEN raw - pre ELSE raw

\* a faulty variant of take: the selection is a view of ft
take_view(meta, ids) ==
    [ owner |-> "caller",
      rows  |-> SelectSeq(meta, LAMBDA r : r.token_account_id \in Range(ids)) ]

\* ft[ft.token_account_id.isin(token_ids)][[...]]: indexing with a boolean mask
\* gives a new DataFrame
take(meta, ids) ==
    [ owner |-> "get_decimals",
      rows  |-> SelectSeq(meta, LAMBDA r : r.token_account_id \in Range(ids)) ]

get_decimals(ids, meta, pre) ==
    LET df == take(meta, ids).rows
    IN  [ i \in 1..Len(df) |->
            LET raw == to_numeric_int(df[i].decimals)
                dec == effective_decimals(raw, pre)
            IN  [ symbol            |-> df[i].symbol,
                  token_account_id  |-> df[i].token_account_id,
                  decimals_raw      |-> raw,
                  decimals          |-> dec,
                  conversion_factor |-> Pow10Float(dec) ] ]

\* ft after get_decimals(token_ids, ft): the column assignments of lines
\* 112-117 write to df
ft_after_get_decimals(ids, meta, pre) ==
    IF take(meta, ids).owner = "caller"
    THEN [ i \in 1..Len(meta) |->
             IF meta[i].token_account_id \in Range(ids)
             THEN LET raw == to_numeric_int(meta[i].decimals)
                      dec == effective_decimals(raw, pre)
                  IN  [ decimals_raw |-> raw, decimals |-> dec,
                        conversion_factor |-> Pow10Float(dec) ] @@ meta[i]
             ELSE meta[i] ]
    ELSE meta

-----------------------------------------------------------------------------
(* PriceJoiner: get_price_df, get_rewards_by_token, get_pool_deposit_withdraws *)

\* an entry of get_price's cache: none, or the stored DataFrame
NotCached == [ cached |-> FALSE, df |-> << >> ]
Cached(frame) == [ cached |-> TRUE, df |-> frame ]

\* DataFrame.merge(token_conversions, left_on=TOKEN_ID, right_on=token_account_id):
\* an inner join that keeps the order of the left rows
RECURSIVE merge_conversions(_, _)
merge_conversions(left, right) ==
    IF left = << >> THEN << >>
    ELSE LET l  == Head(left)
             ms == SelectSeq(right, LAMBDA r : r.token_account_id = l.TOKEN_ID)
         IN  [ i \in 1..Len(ms) |-> ms[i] @@ l ] \o merge_conversions(Tail(left), right)

\* the columns the entry point adds to a merged row before the prices are fetched
amount_columns(f, r) ==
    LET raw_total == to_numeric(r.TotalAmount)
        raw_avg   == to_numeric(r.AverageAmount)
        pool      == f = "get_pool_deposit_withdraws"
    IN  [ token_id         |-> r.TOKEN_ID,
          Date             |-> to_datetime(r.Date),
          RawTotalAmount   |-> raw_total,
          TotalAmount      |-> FloatDiv(raw_total, r.conversion_factor),
          RawAverageAmount |-> IF pool THEN raw_avg ELSE NoColumn,
          AverageAmount    |-> IF pool THEN FloatDiv(raw_avg, r.conversion_factor)
                               ELSE NoColumn ] @@ r

\* the entry point up to its call of get_price_df
normalise(f, rows, meta) ==
    LET token_conversions ==
            get_decimals([ i \in 1..Len(rows) |-> rows[i].TOKEN_ID ], meta,
                         DefaultPrecorrection)
        merged == merge_conversions(rows, token_conversions)
    IN  [ i \in 1..Len(merged) |-> amount_columns(f, merged[i]) ]

\* get_price_df: token_ids
price_token_ids(list, df) ==
    LET sel == SelectSeq(df, LAMBDA r : r.symbol \in Range(list))
    IN  [ i \in 1..Len(sel) |-> sel[i].token_id ]

\* get_price_df: the body of the zip loop for the pair (x, y) and the frame get_price gave
tag_prices(frame, x, y) ==
    [ i \in 1..Len(frame) |->
        [ date    |-> frame[i].date,
          price   |-> to_numeric(frame[i].price),
          TokenID |-> x,
          Symbol  |-> y ] ]

\* a faulty variant of price_date: the fetched timestamp is kept as it is
price_date_exact(rec) == to_datetime(rec.date)

\* the Date column of one price record
price_date(rec) == to_datetime_Ymd(strftime_Ymd(to_datetime(rec.date)))

truncate_dates(prices) ==
    [ i \in 1..Len(prices) |-> [ Date |-> price_date(prices[i]) ] @@ prices[i] ]

\* a faulty variant of priced: the USD amount is taken from the unconverted raw amount
priced_raw(f, l, price, sym) ==
    [ price            |-> price,
      Symbol           |-> sym,
      AmountUSD        |-> FloatMul(l.RawTotalAmount, price),
      AverageAmountUSD |-> IF f = "get_pool_deposit_withdraws"
                           THEN FloatMul(l.RawAverageAmount, price) ELSE NoColumn ] @@ l

\* the columns the join and the lines after it add to an amount row
priced(f, l, price, sym) ==
    [ price            |-> price,
      Symbol           |-> sym,
      AmountUSD        |-> FloatMul(l.TotalAmount, price),
      AverageAmountUSD |-> IF f = "get_pool_deposit_withdraws"
                           THEN FloatMul(l.AverageAmount, price) ELSE NoColumn ] @@ l

\* the price records an amount row joins
matching(l, prices) ==
    SelectSeq(prices, LAMBDA r : r.Symbol = l.symbol /\ r.Date = l.Date)

\* a faulty variant of join_row: an inner join, which drops the rows without a price
join_row_inner(f, l, prices) ==
    LET ms == SelectSeq(prices, LAMBDA r : r.Symbol = l.symbol /\ r.Date = l.Date)
    IN  [ i \in 1..Len(ms) |->
            [ price            |-> ms[i].price,
              Symbol           |-> ms[i].Symbol,
              AmountUSD        |-> FloatMul(l.TotalAmount, ms[i].price),
              AverageAmountUSD |-> IF f = "get_pool_deposit_withdraws"
                                   THEN FloatMul(l.AverageAmount, ms[i].price)
                                   ELSE NoColumn ] @@ l ]

\* the output rows of the left join for one amount row
join_row(f, l, prices) ==
    LET ms == matching(l, prices)
    IN  IF ms = << >> THEN << priced(f, l, NaN, "NaN") >>
        ELSE [ i \in 1..Len(ms) |-> priced(f, l, ms[i].price, ms[i].Symbol) ]

\* merge(price_df[["price", "Symbol", "Date"]], how="left") and the USD columns
RECURSIVE price_join(_, _, _)
price_join(f, left, prices) ==
    IF left = << >> THEN << >>
    ELSE join_row(f, Head(left), prices) \o price_join(f, Tail(left), prices)

-----------------------------------------------------------------------------
(* the inputs the model draws from *)

SeqsUpTo(S, n) == UNION { [1..k -> S] : k \in 0..n }

TokenIds == { "usdc.token", "wrap.near", "ghost.token" }

MetaRow(id, sym, dec) == [ token_account_id |-> id, symbol |-> sym, decimals |-> dec ]

\* metadata tables: token_account_id is their key; "ghost.token" is in none of them
FtTables ==
    { << MetaRow("usdc.token", "USDC", d), MetaRow("wrap.near", "wNEAR", <<"2", "4">>) >> :
        d \in { <<"2", "4">>, <<"6">> } }

AmountRow(id, date, total, avg) ==
    [ TOKEN_ID |-> id, Date |-> date, TotalAmount |-> total, AverageAmount |-> avg ]

\* rows of the Flipside amount queries: dates are midnights (hour 24 = day 1, 48 = day 2)
AmountRows ==
    { AmountRow("usdc.token", 24, <<"5","0","0","0","0","0","0">>, <<"2","5","0">>),
      AmountRow("usdc.token", 48, <<"1","5","0","0">>, <<"2","0">>),
      AmountRow("wrap.near", 24, <<"5","0","0","0","0","0","0">>, <<"2","5","0">>),
      AmountRow("wrap.near", 48, <<"2","0">>, <<"2","0">>),
      AmountRow("ghost.token", 24, <<"5","0","0","0","0","0","0">>, <<"2","5","0">>) }

PricePoint(date, price) == [ date |-> date, price |-> price ]

\* what /api/price-data may answer for a token: daily prices, a price stamped at
\* noon, two prices on one day, no data
PriceResponses ==
    { << PricePoint(24, <<"1",".","0","0">>), PricePoint(48, <<"0",".","2","5">>) >>,
      << PricePoint(36, <<"1",".","0","0">>) >>,
      << PricePoint(24, <<"1",".","0","0">>), PricePoint(36, <<"3",".","5">>) >>,
      << >> }

-----------------------------------------------------------------------------
(* get_rewards_by_token / get_pool_deposit_withdraws as a state machine *)

DecIdle ==
    /\ precorrection = DefaultPrecorrection
    /\ requested = << >>
    /\ conversions = << >>
    /\ converted = << >>

GiniIdle ==
    /\ array = << >>
    /\ gini_gov = NaN
    /\ gini_journey = NaN
    /\ gini_pc = "idle"
    /\ scale = 1
    /\ gini_gov_scaled = NaN
    /\ gini_journey_scaled = NaN

ChartIdle ==
    /\ chart_fn = "none"
    /\ chart_input = << >>
    /\ chart = << >>
    /\ selection = [ state |-> "EMPTY", date |-> 0 ]
    /\ pointer = [ over |-> FALSE, x |-> 0 ]

EpochsIdle ==
    /\ indexer = [ pages |-> 0, records |-> << >> ]
    /\ epochs_requests = << >>
    /\ epochs_data = << >>
    /\ epochs_pages = 0
    /\ epochs_i = 0
    /\ epochs_pc = "idle"
    /\ epochs_df = << >>

CacheIdle ==
    /\ clock = 0
    /\ mem_cache = << >>
    /\ upstream = << >>
    /\ fetches = << >>
    /\ render = << >>

PageIdle ==
    /\ page = "none"
    /\ page_in = << >>
    /\ page_pc = "idle"
    /\ page_env = << >>
    /\ page_out = << >>
    /\ page_exc = ""
    /\ queries = << >>

FinIdle ==
    /\ fn = "none"
    /\ ft = << >>
    /\ dfs = << >>
    /\ price_cache = [ t \in TokenIds |-> NotCached ]
    /\ pc = "idle"
    /\ table = << >>
    /\ token_ids = << >>
    /\ token_list = << >>
    /\ zip_i = 0
    /\ price_dfs = << >>
    /\ price_df = << >>
    /\ exc = ""

Init ==
    /\ fn \in { "get_rewards_by_token", "get_pool_deposit_withdraws" }
    /\ ft \in FtTables
    /\ dfs \in SeqsUpTo(AmountRows, MaxRows)
    /\ price_cache = [ t \in TokenIds |-> NotCached ]
    /\ pc = "start"
    /\ table = << >>
    /\ token_ids = << >>
    /\ token_list = << >>
    /\ zip_i = 0
    /\ price_dfs = << >>
    /\ price_df = << >>
    /\ exc = ""
    /\ DecIdle
    /\ GiniIdle
    /\ ChartIdle
    /\ EpochsIdle
    /\ CacheIdle
    /\ PageIdle

\* an exception leaves the entry point
Raise(e) ==
    /\ pc' = "raised"
    /\ exc' = e

\* get_decimals, the merge with token_conversions and the amount columns
Normalise ==
    /\ UNCHANGED << decVars, giniVars, chartVars, epochsVars, cacheVars, pageVars >>
    /\ pc = "start"
    /\ table' = normalise(fn, dfs, ft)
    /\ pc' = "get_price_df"
    /\ UNCHANGED << fn, ft, dfs, price_cache, token_ids, token_list, zip_i,
                    price_dfs, price_df, exc >>

\* get_price_df(table.symbol.unique(), table) up to its loop
EnterGetPriceDf ==
    /\ UNCHANGED << decVars, giniVars, chartVars, epochsVars, cacheVars, pageVars >>
    /\ pc = "get_price_df"
    /\ LET list == unique([ i \in 1..Len(table) |-> table[i].symbol ])
       IN  /\ token_list' = list
           /\ token_ids' = price_token_ids(list, table)
    /\ zip_i' = 1
    /\ price_dfs' = << >>
    /\ pc' = "zip"
    /\ UNCHANGED << fn, ft, dfs, price_cache, table, price_df, exc >>

\* the zip loop has a pair left
ZipHasNext == zip_i <= Min(Len(token_ids), Len(token_list))

\* what get_price returns: with allow_output_mutation=True st.cache hands out
\* the stored DataFrame itself, on a hit and after a fetch alike
stored_object(frame) == [ cached |-> TRUE, rows |-> frame ]

\* a faulty variant of copy: no copy, df is the stored DataFrame
copy_alias(obj) == obj

\* DataFrame.copy(): a new DataFrame with the same rows
copy(obj) == [ cached |-> FALSE, rows |-> obj.rows ]

\* lines 99-103 with the frame get_price returned; an empty answer gives a frame
\* without a price column.  The column assignments of lines 100-102 write to
\* df, and so to the cache's entry if df is the stored DataFrame.
LoopBody(frame) ==
    LET df     == copy(stored_object(frame))
        tagged == tag_prices(df.rows, token_ids[zip_i], token_list[zip_i])
    IN  IF frame = << >>
        THEN /\ Raise("AttributeError")
             /\ price_cache' = [ price_cache EXCEPT ![token_ids[zip_i]] = Cached(frame) ]
             /\ UNCHANGED << zip_i, price_dfs >>
        ELSE /\ price_dfs' = Append(price_dfs, tagged)
             /\ price_cache' = [ price_cache EXCEPT ![token_ids[zip_i]] =
                                   Cached(IF df.cached THEN tagged ELSE frame) ]
             /\ zip_i' = zip_i + 1
             /\ UNCHANGED << pc, exc >>

\* get_price(x) answered from st.cache
GetPriceCached ==
    /\ UNCHANGED << decVars, giniVars, chartVars, epochsVars, cacheVars, pageVars >>
    /\ pc = "zip"
    /\ ZipHasNext
    /\ price_cache[token_ids[zip_i]].cached
    /\ LoopBody(price_cache[token_ids[zip_i]].df)
    /\ UNCHANGED << fn, ft, dfs, table, token_ids, token_list, price_df >>

\* get_price(x) fetched from the price data source and stored
GetPriceFetched ==
    /\ UNCHANGED << decVars, giniVars, chartVars, epochsVars, cacheVars, pageVars >>
    /\ pc = "zip"
    /\ ZipHasNext
    /\ ~price_cache[token_ids[zip_i]].cached
    /\ \E data \in PriceResponses : LoopBody(data)
    /\ UNCHANGED << fn, ft, dfs, table, token_ids, token_list, price_df >>

\* get_price(x): requests.get raises, the price data source is unreachable
GetPriceUnreachable ==
    /\ UNCHANGED << decVars, giniVars, chartVars, epochsVars, cacheVars, pageVars >>
    /\ pc = "zip"
    /\ ZipHasNext
    /\ ~price_cache[token_ids[zip_i]].cached
    /\ Raise("ConnectionError")
    /\ UNCHANGED << fn, ft, dfs, price_cache, table, token_ids, token_list, zip_i,
                    price_dfs, price_df >>

\* pd.concat(price_dfs), which raises on an empty list, and the return
Concat ==
    /\ UNCHANGED << decVars, giniVars, chartVars, epochsVars, cacheVars, pageVars >>
    /\ pc = "zip"
    /\ ~ZipHasNext
    /\ IF price_dfs = << >>
       THEN /\ Raise("ValueError")
            /\ UNCHANGED price_df
       ELSE /\ price_df' = concat(price_dfs)
            /\ pc' = IF fn = "alt_date_line" THEN "window" ELSE "truncate"
            /\ UNCHANGED exc
    /\ UNCHANGED << fn, ft, dfs, price_cache, table, token_ids, token_list, zip_i,
                    price_dfs >>

\* price_df["Date"] = to_datetime(to_datetime(price_df.date).dt.strftime("%Y-%m-%d"))
TruncateDates ==
    /\ UNCHANGED << decVars, giniVars, chartVars, epochsVars, cacheVars, pageVars >>
    /\ pc = "truncate"
    /\ price_df' = truncate_dates(price_df)
    /\ pc' = "join"
    /\ UNCHANGED << fn, ft, dfs, price_cache, table, token_ids, token_list, zip_i,
                    price_dfs, exc >>

\* the left join with the price table, the USD columns and the return
Join ==
    /\ UNCHANGED << decVars, giniVars, chartVars, epochsVars, cacheVars, pageVars >>
    /\ pc = "join"
    /\ table' = price_join(fn, table, price_df)
    /\ pc' = "done"
    /\ UNCHANGED << fn, ft, dfs, price_cache, token_ids, token_list, zip_i,
                    price_dfs, price_df, exc >>

Next ==
    \/ Normalise
    \/ EnterGetPriceDf
    \/ GetPriceCached
    \/ GetPriceFetched
    \/ GetPriceUnreachable
    \/ Concat
    \/ TruncateDates
    \/ Join

Spec == Init /\ [][Next]_vars

-----------------------------------------------------------------------------
(* Claims about the price pipeline, checked under Spec *)

Restrict(r, cols) == [ c \in cols |-> r[c] ]

\* the token ids of the metadata table
FtIds == { ft[m].token_account_id : m \in 1..Len(ft) }

\* price record p joins amount row l
Matches(p, l) == p.Symbol = l.symbol /\ p.Date = l.Date

\* C1: every price record get_price_df produces carries the symbol of the token
\* whose price series it was fetched from: its (Token ID, Symbol) is a
\* (token_id, symbol) pair of the table get_price_df was given.
C1_SymbolOfFetchedToken ==
    \A i \in 1..Len(price_dfs) : \A j \in 1..Len(price_dfs[i]) :
        \E k \in 1..Len(table) :
            /\ table[k].token_id = price_dfs[i][j].TokenID
            /\ table[k].symbol = price_dfs[i][j].Symbol

\* C2: the price join keeps every amount row: a row without a matching price
\* record comes out once per copy with a null price and a null Amount (USD), and
\* every row with matching records comes out with those records' prices and
\* Amount (USD) = Total Amount * price, whatever happens to the other rows.
C2_LeftJoinKeepsRows ==
    [][ (pc = "join" /\ pc' = "done") =>
          \A i \in 1..Len(table) :
            LET l    == table[i]
                out  == { j \in 1..Len(table') : Restrict(table'[j], DOMAIN l) = l }
                same == { j \in 1..Len(table) : table[j] = l }
                hits == { p \in 1..Len(price_df) : Matches(price_df[p], l) }
            IN  /\ Cardinality(out) >= Cardinality(same)
                /\ hits = {} =>
                     /\ Cardinality(out) = Cardinality(same)
                     /\ \A j \in out : table'[j].price = NaN /\ table'[j].AmountUSD = NaN
                /\ hits # {} =>
                     /\ \A j \in out : \E p \in hits :
                          /\ table'[j].price = price_df[p].price
                          /\ table'[j].AmountUSD = FloatMul(l.TotalAmount, price_df[p].price)
                     /\ \A p \in hits : \E j \in out : table'[j].price = price_df[p].price
      ]_vars

\* C2 witness: a finished join with an unpriced row beside a priced one
C2_Witness ==
    /\ pc = "done"
    /\ \E j \in 1..Len(table) : table[j].price = NaN /\ table[j].AmountUSD = NaN
    /\ \E j \in 1..Len(table) : IsNum(table[j].price) /\ IsNum(table[j].AmountUSD)

\* C3: a price source that is unreachable for one symbol does not abort the call:
\* the call still returns, with every normalised amount row in its result.
C3_UnreachableSourceDoesNotAbort ==
    exc = "ConnectionError" =>
        /\ pc # "raised"
        /\ Len(table) >= Len(normalise(fn, dfs, ft))

\* C5: amount rows of tokens absent from the metadata are excluded without error:
\* a call given amount rows ends with an error only when a price fetch failed, and
\* its result holds no row of an absent token.
C5_AbsentTokensExcludedWithoutError ==
    dfs # << >> =>
        /\ pc = "raised" => exc \in { "ConnectionError", "AttributeError" }
        /\ pc = "done" => \A j \in 1..Len(table) : table[j].TOKEN_ID \in FtIds

\* C7: every price record's Date is the calendar day of its fetched timestamp with
\* no time of day, records fetched on one day share their Date, and an amount row
\* dated day D comes out with the price of every record of its symbol fetched at
\* any time of day D.
C7_PriceDatesAreDays ==
    /\ pc \in { "join", "done" } =>
         \A p \in 1..Len(price_df) :
            /\ price_df[p].Date.tod = 0
            /\ price_df[p].Date.day = to_datetime(price_df[p].date).day
            /\ \A q \in 1..Len(price_df) :
                 to_datetime(price_df[p].date).day = to_datetime(price_df[q].date).day
                    => price_df[p].Date = price_df[q].Date
    /\ pc = "done" =>
         \A j \in 1..Len(table) : \A p \in 1..Len(price_df) :
            ( /\ table[j].Date.tod = 0
              /\ price_df[p].Symbol = table[j].symbol
              /\ to_datetime(price_df[p].date).day = table[j].Date.day )
            => \E o \in 1..Len(table) :
                 /\ table[o].TOKEN_ID = table[j].TOKEN_ID
                 /\ table[o].Date = table[j].Date
                 /\ table[o].RawTotalAmount = table[j].RawTotalAmount
                 /\ table[o].price = price_df[p].price

\* C7 witness: an amount row priced by a record that was fetched with a time of day
C7_Witness ==
    /\ pc = "done"
    /\ \E j \in 1..Len(table) : \E p \in 1..Len(price_df) :
         /\ to_datetime(price_df[p].date).tod # 0
         /\ price_df[p].Symbol = table[j].symbol
         /\ to_datetime(price_df[p].date).day = table[j].Date.day
         /\ table[j].price = price_df[p].price

\* C8: the price join is idempotent: joining the joined result with the same price
\* table again gives the same rows, prices and Amount (USD) values.
C8_JoinIdempotent ==
    pc = "done" => price_join(fn, table, price_df) = table

\* C27: the price join never duplicates an amount row: every amount row that
\* passed token normalisation comes out of the join exactly once, also when its
\* symbol's price series has several timestamps on one calendar day.
C27_JoinNeverDuplicates ==
    [][ (pc = "join" /\ pc' = "done") =>
          /\ Len(table') = Len(table)
          /\ \A i \in 1..Len(table) :
               Cardinality({ j \in 1..Len(table') :
                               Restrict(table'[j], DOMAIN table[i]) = table[i] })
                 = Cardinality({ j \in 1..Len(table) : table[j] = table[i] })
      ]_vars

\* C9: a token with decimals 24 has conversion factor 10^6 under the default
\* precorrection, its raw amount "5000000" becomes Total Amount 5.0, and joined
\* with a price of 1.00 its Amount (USD) is 5.00.
C9_EndToEnd ==
    pc = "done" =>
        \A j \in 1..Len(table) :
            ( /\ table[j].decimals_raw = 24
              /\ table[j].RawTotalAmount = to_numeric(<<"5","0","0","0","0","0","0">>) )
            => /\ table[j].conversion_factor = Num(1, 6)
               /\ table[j].TotalAmount = Num(5, 0)
               /\ table[j].price = to_numeric(<<"1",".","0","0">>)
                    => table[j].AmountUSD = Num(5, 0)

\* C9 witness: the scenario's row in a finished result
C9_Witness ==
    /\ pc = "done"
    /\ \E i \in 1..Len(dfs) : \E m \in 1..Len(ft) : \E j \in 1..Len(table) :
         /\ ft[m].token_account_id = dfs[i].TOKEN_ID
         /\ ft[m].decimals = <<"2", "4">>
         /\ dfs[i].TotalAmount = <<"5","0","0","0","0","0","0">>
         /\ table[j].TOKEN_ID = dfs[i].TOKEN_ID
         /\ table[j].Date = to_datetime(dfs[i].Date)
         /\ table[j].TotalAmount = Num(5, 0)
         /\ table[j].price = Num(1, 0)
         /\ table[j].AmountUSD = Num(5, 0)

-----------------------------------------------------------------------------
(* get_decimals called on its own, and the division by its conversion factors *)

DecimalStrings == { <<"2","4">>, <<"6">>, <<"0">>, <<"3","2","6">>, <<"3","2","7">> }

DecimalsFtTables ==
    { << MetaRow("usdc.token", "USDC", d1), MetaRow("wrap.near", "wNEAR", d2) >> :
        d1 \in DecimalStrings, d2 \in DecimalStrings }

Precorrections == { 0, 6, DefaultPrecorrection, 342 }

RawAmountStrings == { <<"5","0","0","0","0","0","0">>, <<"0">> }

InitDecimals ==
    /\ ft \in DecimalsFtTables
    /\ requested \in SeqsUpTo(TokenIds, MaxRequested)
    /\ precorrection \in Precorrections
    /\ conversions = << >>
    /\ converted = << >>
    /\ pc = "get_decimals"
    /\ fn = "none"
    /\ dfs = << >>
    /\ price_cache = [ t \in TokenIds |-> NotCached ]
    /\ table = << >>
    /\ token_ids = << >>
    /\ token_list = << >>
    /\ zip_i = 0
    /\ price_dfs = << >>
    /\ price_df = << >>
    /\ exc = ""
    /\ GiniIdle
    /\ ChartIdle
    /\ EpochsIdle
    /\ CacheIdle
    /\ PageIdle

\* get_decimals(token_ids, ft, precorrection)
CallGetDecimals ==
    /\ pc = "get_decimals"
    /\ conversions' = get_decimals(requested, ft, precorrection)
    /\ ft' = ft_after_get_decimals(requested, ft, precorrection)
    /\ pc' = "returned"
    /\ UNCHANGED << fn, dfs, price_cache, table, token_ids, token_list, zip_i,
                    price_dfs, price_df, exc, precorrection, requested, converted,
                    giniVars, chartVars, epochsVars, cacheVars, pageVars >>

\* pd.to_numeric(raw amount) / conversion_factor, for each returned row
Divide ==
    /\ pc = "returned"
    /\ \E raw \in RawAmountStrings :
         converted' =
            [ i \in 1..Len(conversions) |->
                [ raw    |-> raw,
                  amount |-> FloatDiv(to_numeric(raw), conversions[i].conversion_factor) ] ]
    /\ pc' = "divided"
    /\ UNCHANGED << fn, ft, dfs, price_cache, table, token_ids, token_list, zip_i,
                    price_dfs, price_df, exc, precorrection, requested, conversions,
                    giniVars, chartVars, epochsVars, cacheVars, pageVars >>

NextDecimals ==
    \/ CallGetDecimals
    \/ Divide

SpecDecimals == InitDecimals /\ [][NextDecimals]_vars

Returned == pc \in { "returned", "divided" }

\* the metadata row of a returned row
MetaOf(row) == CHOOSE m \in Range(ft) : m.token_account_id = row.token_account_id

\* C4: for every returned row and every precorrection >= 0, 0 included,
\* conversion_factor = 10 ** (raw_decimals - precorrection), raw_decimals being
\* the numeric value of the metadata's decimals field.
C4_ConversionFactorFormula ==
    Returned =>
        \A i \in 1..Len(conversions) :
            LET raw == to_numeric_int(MetaOf(conversions[i]).decimals)
            IN  /\ conversions[i].decimals_raw = raw
                /\ conversions[i].conversion_factor = Pow10Float(raw - precorrection)

\* C4 witness: a returned row of a call with precorrection 0
C4_Witness ==
    /\ pc = "returned"
    /\ precorrection = 0
    /\ \E i \in 1..Len(conversions) : conversions[i].decimals_raw = 24

-----------------------------------------------------------------------------
(* GiniCoefficient: gini of gov_utils.py and of journey_utils.py *)
(* The array holds whole numbers; from "array += 0.0000001" on, the working  *)
(* array is counted in units of 0.0000001.  The returned quotient is the     *)
(* pair of its numerator and denominator.                                    *)

\* 1 / 0.0000001, the number of epsilons in 1.0
EpsilonInverse == 10000000

GiniNone == [ k |-> "none", num |-> 0, den |-> 0 ]
GiniRaised == [ k |-> "raised", num |-> 0, den |-> 0 ]
GiniValue(num, den) == [ k |-> "value", num |-> num, den |-> den ]

\* np.amin of a non-empty array
amin(a) == CHOOSE v \in Range(a) : \A w \in Range(a) : v <= w

\* np.sum
RECURSIVE sum(_)
sum(a) == IF a = << >> THEN 0 ELSE a[1] + sum(Tail(a))

\* a faulty variant of insert_sorted: the element is put first, so that the
\* array keeps the caller's order
insert_unsorted(a, v) == << v >> \o a

\* np.sort: ascending
RECURSIVE insert_sorted(_, _)
insert_sorted(a, v) ==
    IF a = << >> THEN << v >>
    ELSE IF v <= a[1] THEN << v >> \o a
    ELSE << a[1] >> \o insert_sorted(Tail(a), v)

RECURSIVE sort(_)
sort(a) == IF a = << >> THEN << >> ELSE insert_sorted(sort(Tail(a)), a[1])

\* a faulty variant of shift_negative: the shift is applied with the wrong sign
shift_negative_added(a) ==
    IF amin(a) < 0 THEN [ i \in 1..Len(a) |-> a[i] + amin(a) ] ELSE a

\* if np.amin(array) < 0: array -= np.amin(array)
shift_negative(a) ==
    IF amin(a) < 0 THEN [ i \in 1..Len(a) |-> a[i] - amin(a) ] ELSE a

\* array += 0.0000001, in units of 0.0000001
add_epsilon(a) == [ i \in 1..Len(a) |-> a[i] * EpsilonInverse + 1 ]

\* a faulty variant of gini_quotient: the weights are 2 * index - n
gini_quotient_uncentred(a) ==
    LET n == Len(a)
    IN  GiniValue(sum([ i \in 1..n |-> (2 * i - n) * a[i] ]), n * sum(a))

\* (np.sum((2 * index - n - 1) * array)) / (n * np.sum(array))
gini_quotient(a) ==
    LET n == Len(a)
    IN  GiniValue(sum([ i \in 1..n |-> (2 * i - n - 1) * a[i] ]), n * sum(a))

\* a faulty variant of gov_gini: the minimum of an empty array is taken to be 0
\* instead of raising, and the quotient 0.0 / 0 is returned
gov_gini_unguarded(a) ==
    IF a = << >> THEN GiniValue(0, 0)
    ELSE gini_quotient(sort(add_epsilon(shift_negative(a))))

\* gini of near/gov/gov_utils.py; np.amin raises on an empty array
gov_gini(a) ==
    IF a = << >> THEN GiniRaised
    ELSE gini_quotient(sort(add_epsilon(shift_negative(a))))

\* gini of near/journey/journey_utils.py; np.amin raises on an empty array
journey_gini(a) ==
    IF a = << >> THEN GiniRaised
    ELSE gini_quotient(sort(add_epsilon(shift_negative(a))))

\* a faulty variant of flatten: ravel(), a view of the caller's array
flatten_view(a) == [ owner |-> "caller", values |-> a ]

\* ndarray.flatten(): a copy of the array, collapsed into one dimension
flatten(a) == [ owner |-> "gini", values |-> a ]

\* the caller's array after gini(array): the in-place "-=" and "+=" write to the
\* array flatten returned (its values are then in units of 0.0000001); on an
\* empty array np.amin raises before either
array_after_gini(a) ==
    LET flat == flatten(a)
    IN  IF flat.owner = "caller" /\ a # << >> THEN add_epsilon(shift_negative(flat.values))
        ELSE a

GiniInputs == { -2, 0, 1, 3 }

\* the factors k of the scaled calls gini(k * array)
Scales == { 1, 2 }

\* k * array
scaled(a, k) == [ i \in 1..Len(a) |-> k * a[i] ]

InitGini ==
    /\ array \in SeqsUpTo(GiniInputs, MaxArrayLen)
    /\ scale \in Scales
    /\ gini_gov = GiniNone
    /\ gini_journey = GiniNone
    /\ gini_gov_scaled = GiniNone
    /\ gini_journey_scaled = GiniNone
    /\ gini_pc = "call"
    /\ FinIdle
    /\ DecIdle
    /\ ChartIdle
    /\ EpochsIdle
    /\ CacheIdle
    /\ PageIdle

\* "done" once every call has returned or raised
GiniPc(g, j, gs, js) == IF GiniNone \in { g, j, gs, js } THEN "call" ELSE "done"

\* the Local Government page computes gini of the stakes
CallGiniGov ==
    /\ gini_gov = GiniNone
    /\ gini_gov' = gov_gini(array)
    /\ array' = array_after_gini(array)
    /\ gini_pc' = GiniPc(gini_gov', gini_journey, gini_gov_scaled, gini_journey_scaled)
    /\ UNCHANGED << scale, gini_journey, gini_gov_scaled, gini_journey_scaled,
                    finVars, decVars, chartVars, epochsVars, cacheVars, pageVars >>

\* the User Journey page computes gini of the balances
CallGiniJourney ==
    /\ gini_journey = GiniNone
    /\ gini_journey' = journey_gini(array)
    /\ array' = array_after_gini(array)
    /\ gini_pc' = GiniPc(gini_gov, gini_journey', gini_gov_scaled, gini_journey_scaled)
    /\ UNCHANGED << scale, gini_gov, gini_gov_scaled, gini_journey_scaled,
                    finVars, decVars, chartVars, epochsVars, cacheVars, pageVars >>

\* gini of gov_utils.py applied to the same stakes in another unit
CallGiniGovScaled ==
    /\ gini_gov_scaled = GiniNone
    /\ gini_gov_scaled' = gov_gini(scaled(array, scale))
    /\ gini_pc' = GiniPc(gini_gov, gini_journey, gini_gov_scaled', gini_journey_scaled)
    /\ UNCHANGED << array, scale, gini_gov, gini_journey, gini_journey_scaled,
                    finVars, decVars, chartVars, epochsVars, cacheVars, pageVars >>

\* gini of journey_utils.py applied to the same balances in another unit
CallGiniJourneyScaled ==
    /\ gini_journey_scaled = GiniNone
    /\ gini_journey_scaled' = journey_gini(scaled(array, scale))
    /\ gini_pc' = GiniPc(gini_gov, gini_journey, gini_gov_scaled, gini_journey_scaled')
    /\ UNCHANGED << array, scale, gini_gov, gini_journey, gini_gov_scaled,
                    finVars, decVars, chartVars, epochsVars, cacheVars, pageVars >>

NextGini ==
    \/ CallGiniGov
    \/ CallGiniJourney
    \/ CallGiniGovScaled
    \/ CallGiniJourneyScaled

SpecGini == InitGini /\ [][NextGini]_vars

\* the values of x shifted up by -min(x) when min(x) < 0, then increased by one epsilon
Adjusted(x) ==
    LET lo == CHOOSE v \in Range(x) : \A w \in Range(x) : v <= w
    IN  [ i \in 1..Len(x) |->
            (IF lo < 0 THEN x[i] - lo ELSE x[i]) * EpsilonInverse + 1 ]

Occurrences(s, v) == Cardinality({ i \in 1..Len(s) : s[i] = v })

\* the ascending rearrangement of s
Ascending(s) ==
    CHOOSE y \in [1..Len(s) -> Range(s)] :
        /\ \A i \in 1..Len(s) - 1 : y[i] <= y[i + 1]
        /\ \A v \in Range(s) : Occurrences(y, v) = Occurrences(s, v)

RECURSIVE WeightedSum(_, _)
WeightedSum(y, i) ==
    IF i = 0 THEN 0
    ELSE WeightedSum(y, i - 1) + (2 * i - Len(y) - 1) * y[i]

RECURSIVE PlainSum(_, _)
PlainSum(y, i) == IF i = 0 THEN 0 ELSE PlainSum(y, i - 1) + y[i]

\* C10: for a non-empty x both copies of gini return
\* sum_i (2i - n - 1) * y_i / (n * sum y), y being x shifted up by -min(x) when
\* min(x) < 0, increased by 1e-7 per element and sorted ascending.
C10_GiniFormula ==
    array # << >> =>
        LET y   == Ascending(Adjusted(array))
            n   == Len(array)
            ref == GiniValue(WeightedSum(y, n), n * PlainSum(y, n))
        IN  /\ gini_gov # GiniNone => gini_gov = ref
            /\ gini_journey # GiniNone => gini_journey = ref

\* C10 witness: both copies returned for an unsorted array with a negative value
C10_Witness ==
    /\ gini_pc = "done"
    /\ Len(array) >= 3
    /\ \E i \in 1..Len(array) : array[i] < 0
    /\ \E i \in 1..Len(array) - 1 : array[i] > array[i + 1]
    /\ gini_gov.k = "value"
    /\ gini_gov.num > 0
    /\ gini_journey = gini_gov

\* the greatest common divisor of two non-negative integers
RECURSIVE gcd(_, _)
gcd(a, b) == IF b = 0 THEN a ELSE gcd(b, a % b)

\* a returned quotient with a non-negative numerator, in lowest terms
LowestTerms(g) ==
    LET d == gcd(g.num, g.den)
    IN  << g.num \div d, g.den \div d >>

\* all elements of x are equal
AllEqual(x) == \A i, j \in 1..Len(x) : x[i] = x[j]

GiniResults == { gini_gov, gini_journey, gini_gov_scaled, gini_journey_scaled }

C12_EqualElementsGiveZero ==
    (array # << >> /\ AllEqual(array)) =>
        \A g \in { gini_gov, gini_journey } :
            g # GiniNone => (g.k = "value" /\ g.num = 0 /\ g.den > 0)

\* C12 witness: both copies returned 0 for three zeros
C12_Witness ==
    /\ array = << 0, 0, 0 >>
    /\ gini_gov = GiniValue(0, 9)
    /\ gini_journey = GiniValue(0, 9)

\* C13: for every non-empty input, negative values included, gini returns g
\* with 0 <= g < 1.
C13_GiniRange ==
    array # << >> =>
        \A g \in GiniResults :
            g # GiniNone => (g.k = "value" /\ 0 <= g.num /\ g.num < g.den)

\* C13 witness: both copies returned a positive value for an unsorted array
\* with a negative element, alone and scaled
C13_Witness ==
    /\ gini_pc = "done"
    /\ \E i \in 1..Len(array) : array[i] < 0
    /\ \E i \in 1..Len(array) - 1 : array[i] > array[i + 1]
    /\ scale > 1
    /\ \A g \in GiniResults : g.k = "value" /\ 0 < g.num /\ g.num < g.den

\* C14: on an empty sequence gini raises before any division; it never returns
\* a value.
C14_EmptyRaises ==
    array = << >> =>
        \A g \in GiniResults : g # GiniNone => g = GiniRaised

\* C14 witness: every call on the empty array has raised
C14_Witness ==
    /\ array = << >>
    /\ gini_pc = "done"
    /\ \A g \in GiniResults : g = GiniRaised

-----------------------------------------------------------------------------
(* TimeSeriesChartBuilder: the builders of the charts with a hover rule      *)
(*   alt_line_chart of near/utils.py; alt_date_line, alt_farm_date_line and  *)
(*   alt_pool_liquidity (grouping "By Date") of near/finance/fin_utils.py;   *)
(*   alt_lines_bar of near/gov/gov_utils.py; alt_line_chart of the Arts      *)
(*   District page.                                                          *)
(* A DataFrame is a sequence of rows, a row a record over the column names.  *)
(* Dates are day numbers.  The float64 values of a chart are exact rationals *)
(* << numerator, denominator >>.  A chart is the sequence of its layers, and *)
(* a layer records the Altair calls that built it.                           *)

\* longest DataFrame handed to a chart builder
MaxChartRows == 3

abs(n) == IF n < 0 THEN -n ELSE n

\* n / d in lowest terms, d > 0
Rat(n, d) == LET g == gcd(abs(n), d) IN << n \div g, d \div g >>

RatAdd(a, b) == Rat(a[1] * b[2] + b[1] * a[2], a[2] * b[2])

RatNeg(a) == << 0 - a[1], a[2] >>

RatLess(a, b) == a[1] * b[2] < b[1] * a[2]

RECURSIVE RatSum(_)
RatSum(s) == IF s = << >> THEN << 0, 1 >> ELSE RatAdd(s[1], RatSum(Tail(s)))

\* Series.mean() of a non-empty Series
mean(s) == LET t == RatSum(s) IN Rat(t[1], t[2] * Len(s))

\* the strings of the model in Python's str order
Alphabetical ==
    << "1", "2", "Average Sale", "Blocks produced", "Cheapest NFT", "Ethereum",
       "Most Expensive NFT", "NEAR", "Transactions Processed", "USD Coin",
       "USD Coin (bridged)", "USDC", "Wrapped NEAR", "add", "remove", "wNEAR" >>

\* sorted(...) of strings without repetition
sorted(s) == SelectSeq(Alphabetical, LAMBDA x : x \in Range(s))

\* df[c]
column(df, c) == [ i \in 1..Len(df) |-> df[i][c] ]

\* df.sort_values(by=col): ascending, rows of equal key in their given order
RECURSIVE insert_by(_, _, _)
insert_by(df, row, col) ==
    IF df = << >> THEN << row >>
    ELSE IF row[col] < df[1][col] THEN << row >> \o df
    ELSE << df[1] >> \o insert_by(Tail(df), row, col)

RECURSIVE sort_values(_, _)
sort_values(df, col) ==
    IF df = << >> THEN << >>
    ELSE insert_by(sort_values(SubSeq(df, 1, Len(df) - 1), col), df[Len(df)], col)

\* the date_range argument: an int number of days, or the option for all dates
AllDates == [ is_int |-> FALSE, days |-> 0 ]
DaysBack(n) == [ is_int |-> TRUE, days |-> n ]

\* df.iloc[-n:]
iloc_last(df, n) ==
    IF n = 0 \/ n >= Len(df) THEN df ELSE SubSeq(df, Len(df) - n + 1, Len(df))

\* df[df.Date >= pd.to_datetime(today - timedelta(days=n))]: Date is a midnight
\* and datetime.today() a time after the midnight of day today
since(df, today, n) == SelectSeq(df, LAMBDA r : r["Date"] > today - n)

\* df.groupby(key)[value].mean().sort_values(ascending=False).index.to_list():
\* the groups come in ascending key order and equal means keep that order
by_mean_descending(df, key, value) ==
    LET keys == sorted(unique(column(df, key)))
        m(k) == mean(column(SelectSeq(df, LAMBDA r : r[key] = k), value))
        before(i) ==
            Cardinality({ j \in 1..Len(keys) :
                            \/ RatLess(m(keys[i]), m(keys[j]))
                            \/ m(keys[j]) = m(keys[i]) /\ j < i })
    IN  [ p \in 1..Len(keys) |->
            keys[CHOOSE i \in 1..Len(keys) : before(i) = p - 1] ]

\* a faulty variant of selection_single: empty is left at Altair's default "all"
selection_single_empty_all(fields) ==
    [ fields |-> fields, nearest |-> TRUE, on |-> "mouseover", empty |-> "all",
      clear |-> "mouseout" ]

\* alt.selection_single(fields=[...], nearest=True, on="mouseover",
\*                      empty="none", clear="mouseout")
selection_single(fields) ==
    [ fields |-> fields, nearest |-> TRUE, on |-> "mouseover", empty |-> "none",
      clear |-> "mouseout" ]

\* a layer without a selection, without a filter, without a pivot
NoSelection ==
    [ fields |-> << >>, nearest |-> FALSE, on |-> "", empty |-> "all", clear |-> "" ]
NoPivot == [ pivot |-> "", value |-> "", groupby |-> << >> ]

\* alt.value(v) and alt.condition(selection, alt.value(a), alt.value(b))
alt_value(v) == [ test |-> NoSelection, if_true |-> v, if_false |-> v ]
alt_condition(sel, a, b) == [ test |-> sel, if_true |-> a, if_false |-> b ]

\* alt.X("<timeUnit>(<field>):T")
alt_X(timeUnit, field) == [ timeUnit |-> timeUnit, field |-> field ]

\* alt.Chart(df).encode(x=...)
alt_Chart(df, x) ==
    [ data |-> df, mark |-> "", x |-> x, y |-> "", color |-> "",
      filter |-> NoSelection, pivot |-> NoPivot, opacity |-> alt_value(""),
      tooltip |-> [ head |-> << >>, columns |-> << >> ],
      selection |-> NoSelection ]

\* .mark_line() / .mark_area() / .mark_bar() / .mark_point() / .mark_rule()
mark(layer, m) == [ layer EXCEPT !.mark = m ]

\* .encode(y=..., color=...)
encode(layer, y, color) == [ layer EXCEPT !.y = y, !.color = color ]

\* .transform_filter(selection)
transform_filter(layer, sel) == [ layer EXCEPT !.filter = sel ]

\* .transform_pivot(pivot, value=value, groupby=groupby)
transform_pivot(layer, pivot, value, groupby) ==
    [ layer EXCEPT !.pivot = [ pivot |-> pivot, value |-> value, groupby |-> groupby ] ]

\* the rule layer: base.transform_pivot(...).mark_rule()
\*   .encode(opacity=alt.condition(selection, alt.value(0.3), alt.value(0)),
\*           tooltip=head + [alt.Tooltip(c, type="quantitative") for c in columns])
\*   .add_selection(selection)
rule_layer(base, pivot, value, groupby, sel, head, columns) ==
    [ mark(transform_pivot(base, pivot, value, groupby), "rule") EXCEPT
        !.opacity = alt_condition(sel, "0.3", "0"),
        !.tooltip = [ head |-> head, columns |-> columns ],
        !.selection = sel ]

\* alt_line_chart of near/utils.py
utils_alt_line_chart(data, colname) ==
    LET base    == alt_Chart(data, alt_X("yearmonthdate", "datetime"))
        columns == sorted(unique(column(data, "blockchain")))
        sel     == selection_single(<< "datetime" >>)
        lines   == encode(mark(base, "line"), colname, "blockchain")
        points  == transform_filter(mark(lines, "point"), sel)
        rule    == rule_layer(base, "blockchain", colname, << "datetime" >>, sel,
                              << "datetime" >>, columns)
    IN  << lines, points, rule >>

\* alt_date_line of fin_utils.py, from the table get_price_df returned
alt_date_line(price_table, value, date_range, color_col) ==
    LET sorted_df == sort_values(price_table, "date")
        df      == IF date_range.is_int THEN iloc_last(sorted_df, date_range.days)
                   ELSE sorted_df
        base    == alt_Chart(df, alt_X("yearmonthdate", "date"))
        columns == sorted(unique(column(df, color_col)))
        sel     == selection_single(<< "date" >>)
        lines   == encode(mark(base, "line"), value, color_col)
        points  == transform_filter(mark(lines, "point"), sel)
        rule    == rule_layer(base, color_col, value, << "date" >>, sel,
                              << "date" >>, columns)
    IN  << lines, points, rule >>

\* alt_farm_date_line of fin_utils.py
alt_farm_date_line(df0, value, date_range, color_col, today) ==
    LET sorted_df == sort_values(df0, "Date")
        df      == IF date_range.is_int THEN since(sorted_df, today, date_range.days)
                   ELSE sorted_df
        base    == alt_Chart(df, alt_X("yearmonthdate", "Date"))
        columns == by_mean_descending(df, color_col, value)
        sel     == selection_single(<< "Date" >>)
        lines   == encode(mark(base, "line"), value, color_col)
        points  == transform_filter(mark(lines, "point"), sel)
        rule    == rule_layer(base, color_col, value, << "Date" >>, sel,
                              << "yearmonthdate(Date)" >>, columns)
    IN  << lines, points, rule >>

\* df.melt(id_vars=[date_col, variable_col], value_vars=value_vars)
melt(df, id_vars, value_vars) ==
    concat([ v \in 1..Len(value_vars) |->
               [ i \in 1..Len(df) |->
                   [ c \in Range(id_vars) \cup { "variable", "value" } |->
                       IF c = "variable" THEN value_vars[v]
                       ELSE IF c = "value" THEN df[i][value_vars[v]]
                       ELSE df[i][c] ] ] ])

\* alt_lines_bar of gov_utils.py
alt_lines_bar(df, date_col, date_type, variable_col, value_vars) ==
    LET melt_df == melt(df, << date_col, variable_col >>, value_vars)
        base    == alt_Chart(melt_df, alt_X(date_type, date_col))
        columns == sorted(unique(column(melt_df, "variable")))
        sel     == selection_single(<< date_col >>)
        lines   == encode(mark(base, "line"), variable_col, "")
        bars    == encode(mark(base, "bar"), "value", "variable")
        points  == transform_filter(mark(lines, "point"), sel)
        rule    == rule_layer(base, "variable", "value", << date_col, variable_col >>,
                              sel, << date_col, variable_col >>, columns)
    IN  << bars, lines, points, rule >>

\* "-".join(...) and f"{'/ '.join(...)} LP": the parts, their separator and the suffix
str_join(sep, parts, suffix) == [ sep |-> sep, parts |-> parts, suffix |-> suffix ]

\* df.groupby(["Date", "ACTION_TYPE"])[metric].mean().reset_index(): one row for
\* each (Date, ACTION_TYPE) of df, by ascending Date and then ACTION_TYPE
groupby_date_action_mean(df, metric) ==
    LET dates   == unique(column(sort_values(df, "Date"), "Date"))
        actions == sorted(unique(column(df, "ACTION_TYPE")))
        group(d, a) == SelectSeq(df, LAMBDA r : r["Date"] = d /\ r["ACTION_TYPE"] = a)
        cells   == concat([ i \in 1..Len(dates) |->
                              [ j \in 1..Len(actions) |-> << dates[i], actions[j] >> ] ])
        present == SelectSeq(cells, LAMBDA c : group(c[1], c[2]) # << >>)
    IN  [ i \in 1..Len(present) |->
            [ c \in { "Date", "ACTION_TYPE", metric } |->
                IF c = "Date" THEN present[i][1]
                ELSE IF c = "ACTION_TYPE" THEN present[i][2]
                ELSE mean(column(group(present[i][1], present[i][2]), metric)) ] ]

\* grouped_df[metric] = grouped_df.apply(lambda x: x[metric] * -1
\*                                       if x.ACTION_TYPE == "remove" else x[metric], axis=1)
signed(df, metric) ==
    [ i \in 1..Len(df) |->
        [ df[i] EXCEPT ![metric] =
            IF df[i]["ACTION_TYPE"] = "remove" THEN RatNeg(@) ELSE @ ] ]

\* alt_pool_liquidity of fin_utils.py with grouping == "By Date"
alt_pool_liquidity(df0, analysis_type, metric, date_range, s, today) ==
    LET col       == IF analysis_type = "By Pool" THEN "POOL_ID" ELSE "Symbol"
        sorted_df == sort_values(df0, "Date")
        ranged    == IF date_range.is_int THEN since(sorted_df, today, date_range.days)
                     ELSE sorted_df
        picked    == SelectSeq(ranged, LAMBDA r : r[col] = s)
        symbols   == unique(column(picked, "Symbol"))
        means     == groupby_date_action_mean(picked, metric)
        labelled  == [ i \in 1..Len(means) |->
                         [ c \in { "Date", "ACTION_TYPE", metric, "Symbol", "name" } |->
                             IF c = "Symbol" THEN str_join("-", symbols, "")
                             ELSE IF c = "name" THEN str_join("/ ", symbols, " LP")
                             ELSE means[i][c] ] ]
        grouped_df == signed(IF analysis_type = "By Pool" THEN labelled ELSE picked,
                             metric)
        \* "By Token": grouped_df is df itself, so df has the signed metric too
        df      == IF analysis_type = "By Pool" THEN picked ELSE grouped_df
        base    == alt_Chart(grouped_df, alt_X("yearmonthdate", "Date"))
        columns == by_mean_descending(df, "ACTION_TYPE", metric)
        sel     == selection_single(<< "Date" >>)
        lines   == encode(mark(base, "line"), metric, "ACTION_TYPE")
        points  == transform_filter(mark(lines, "point"), sel)
        rule    == rule_layer(base, "ACTION_TYPE", metric, << "Date", "Symbol", "name" >>,
                              sel, << "yearmonthdate(Date)", "Symbol", "name" >>, columns)
    IN  << lines, points, rule >>

\* alt_line_chart of the Arts District page: the columns are hard coded
arts_alt_line_chart(data, colname) ==
    LET columns == << "Most Expensive NFT", "Average Sale", "Cheapest NFT" >>
        base    == alt_Chart(data, alt_X("yearmonthdate", "DATETIME"))
        sel     == selection_single(<< "DATETIME" >>)
        lines   == [ encode(mark(base, "area"), colname, "variable") EXCEPT
                       !.opacity = alt_value("0.6") ]
        rule    == rule_layer(base, "variable", colname, << "DATETIME" >>, sel,
                              << "yearmonthdate(DATETIME)" >>, columns)
    IN  << lines, rule >>

\* the rendered chart (Vega-Lite)

NoChart == << >>

\* the states of the hover selection
EMPTY == [ state |-> "EMPTY", date |-> 0 ]
ACTIVE(d) == [ state |-> "ACTIVE", date |-> d ]

\* the pointer: outside the chart, or over it at position x of the date axis
Outside == [ over |-> FALSE, x |-> 0 ]
Over(p) == [ over |-> TRUE, x |-> p ]

\* the rows of a pivot transform: one for each distinct tuple of the group-by
\* fields, with one field for each distinct value of the pivot column holding
\* the sum of the value column
transform_pivot_rows(layer) ==
    LET groupby == Range(layer.pivot.groupby)
        values  == Range(column(layer.data, layer.pivot.pivot))
        keys    == { [ f \in groupby |-> layer.data[i][f] ] : i \in 1..Len(layer.data) }
        cell(g, c) ==
            RatSum(column(SelectSeq(layer.data,
                                    LAMBDA r : /\ r[layer.pivot.pivot] = c
                                               /\ \A f \in groupby : r[f] = g[f]),
                          layer.pivot.value))
    IN  { [ c \in groupby \cup values |-> IF c \in groupby THEN g[c] ELSE cell(g, c) ] :
            g \in keys }

\* the selection predicate on a row: an empty selection holds for no row with
\* empty="none" and for every row with empty="all"
selection_test(sel, state, row) ==
    IF state.state = "EMPTY" THEN sel.empty = "all"
    ELSE row[sel.fields[1]] = state.date

\* the rows (by position) of a layer's data that are drawn as marks
marks(layer, state) ==
    { i \in 1..Len(layer.data) :
        layer.filter = NoSelection \/ selection_test(layer.filter, state, layer.data[i]) }

\* the opacity a layer's mark for row is drawn with
opacity(layer, state, row) ==
    IF layer.opacity.test = NoSelection THEN layer.opacity.if_true
    ELSE IF selection_test(layer.opacity.test, state, row) THEN layer.opacity.if_true
    ELSE layer.opacity.if_false

\* the layer the selection was added to
selection_layer(c) == c[CHOOSE i \in 1..Len(c) : c[i].selection # NoSelection]

\* the marks of the selection's layer an event at position p falls on: with
\* nearest=True the marks closest to p along x
event_marks(layer, p) ==
    LET rows == transform_pivot_rows(layer)
        x(r) == r[layer.x.field]
    IN  IF layer.selection.nearest
        THEN { r \in rows : \A q \in rows : abs(x(r) - p) <= abs(x(q) - p) }
        ELSE { r \in rows : x(r) = p }

\* the inputs of the builders

ChartDays == { 1, 2, 4 }
PointerPositions == 0..5

\* a row: the columns cols with the values vals
Row(cols, vals) == [ c \in Range(cols) |-> vals[CHOOSE i \in 1..Len(cols) : cols[i] = c] ]

SortedBy(df, col) == \A i \in 1..Len(df) - 1 : df[i][col] <= df[i + 1][col]
DistinctBy(df, col) == \A i, j \in 1..Len(df) : df[i][col] = df[j][col] => i = j

\* load_data of near/utils.py: daily rows for each blockchain, sorted by datetime
UserData ==
    { df \in SeqsUpTo({ Row(<< "datetime", "blockchain", "active_users" >>,
                            << d, b, << 5, 1 >> >>) :
                          d \in ChartDays, b \in { "Ethereum", "NEAR" } }, MaxChartRows) :
        SortedBy(df, "datetime") }

\* the table get_price_df returns
PriceTables ==
    SeqsUpTo({ Row(<< "date", "Symbol", "price" >>, << d, s[1], s[2] >>) :
                 d \in ChartDays,
                 s \in { << "USDC", << 1, 1 >> >>, << "wNEAR", << 4, 1 >> >> } },
             MaxChartRows)

\* reward claims by farm token
FarmTables ==
    SeqsUpTo({ Row(<< "Date", "name", "Amount (USD)" >>, << d, n[1], n[2] >>) :
                 d \in ChartDays,
                 n \in { << "USD Coin", << 2, 1 >> >>, << "Wrapped NEAR", << 4, 1 >> >> } },
             MaxChartRows)

\* get_fs_validator_data: one row for each day, ordered by day
ValidatorData ==
    { df \in SeqsUpTo({ Row(<< "DATETIME", "Stake (NEAR)", "Blocks produced",
                               "Transactions Processed" >>,
                            << d, s, << 3, 1 >>, << 7, 1 >> >>) :
                          d \in ChartDays, s \in { << 10, 1 >>, << 20, 1 >> } },
                      MaxChartRows) :
        SortedBy(df, "DATETIME") /\ DistinctBy(df, "DATETIME") }

PoolRow(date, pool, symbol, name, action, amount) ==
    Row(<< "Date", "POOL_ID", "Symbol", "name", "ACTION_TYPE", "Amount (USD)" >>,
        << date, pool, symbol, name, action, amount >>)

\* get_pool_deposit_withdraws: Symbol and name come from the token metadata, in
\* which two tokens can carry one symbol
PoolTables ==
    SeqsUpTo({ PoolRow(1, "1", "USDC", "USD Coin", "add", << 4, 1 >>),
               PoolRow(1, "1", "USDC", "USD Coin", "remove", << 2, 1 >>),
               PoolRow(1, "1", "USDC", "USD Coin (bridged)", "add", << 2, 1 >>),
               PoolRow(2, "2", "USDC", "USD Coin", "add", << 2, 1 >>),
               PoolRow(2, "1", "wNEAR", "Wrapped NEAR", "remove", << 4, 1 >>) },
             MaxChartRows)

\* the Arts District page's sales of a collection: one row for each day
SaleData ==
    { df \in SeqsUpTo({ Row(<< "DATETIME", "Average Sale", "Cheapest NFT",
                               "Most Expensive NFT" >>,
                            << d, << 5, 1 >>, << 2, 1 >>, << 9, 1 >> >>) :
                          d \in ChartDays }, MaxChartRows) :
        SortedBy(df, "DATETIME") /\ DistinctBy(df, "DATETIME") }

DateRanges == { AllDates, DaysBack(2) }

ChartBuilders ==
    { "utils.alt_line_chart", "alt_date_line", "alt_farm_date_line", "alt_lines_bar",
      "alt_pool_liquidity", "arts.alt_line_chart" }

\* the arguments of a call of builder b
ChartInputs(b) ==
    CASE b = "utils.alt_line_chart" ->
            { [ data |-> df, colname |-> "active_users" ] : df \in UserData }
      [] b = "alt_date_line" ->
            { [ price_table |-> df, value |-> "price", date_range |-> r,
                color_col |-> "Symbol" ] : df \in PriceTables, r \in DateRanges }
      [] b = "alt_farm_date_line" ->
            { [ df |-> df, value |-> "Amount (USD)", date_range |-> r,
                color_col |-> "name", today |-> 4 ] : df \in FarmTables, r \in DateRanges }
      [] b = "alt_lines_bar" ->
            { [ df |-> df, date_col |-> "DATETIME", date_type |-> "yearmonthdate",
                variable_col |-> "Stake (NEAR)", value_vars |-> v ] :
                df \in ValidatorData,
                v \in { << "Transactions Processed" >>, << "Blocks produced" >>,
                        << "Blocks produced", "Transactions Processed" >> } }
      [] b = "alt_pool_liquidity" ->
            { [ df |-> df, analysis_type |-> a[1], metric |-> "Amount (USD)",
                date_range |-> r, s |-> a[2], today |-> 2 ] :
                df \in PoolTables,
                a \in { << "By Pool", "1" >>, << "By Token", "USDC" >> },
                r \in { AllDates, DaysBack(1) } }
      [] b = "arts.alt_line_chart" ->
            { [ df |-> df ] : df \in SaleData }

\* the call of builder b with arguments args
build_chart(b, args) ==
    CASE b = "utils.alt_line_chart" -> utils_alt_line_chart(args.data, args.colname)
      [] b = "alt_date_line" ->
            alt_date_line(args.price_table, args.value, args.date_range, args.color_col)
      [] b = "alt_farm_date_line" ->
            alt_farm_date_line(args.df, args.value, args.date_range, args.color_col, args.today)
      [] b = "alt_lines_bar" ->
            alt_lines_bar(args.df, args.date_col, args.date_type, args.variable_col, args.value_vars)
      [] b = "alt_pool_liquidity" ->
            alt_pool_liquidity(args.df, args.analysis_type, args.metric, args.date_range, args.s,
                               args.today)
      [] b = "arts.alt_line_chart" ->
            \* sale_df = df[[...]].melt(id_vars=["DATETIME"]); alt_line_chart(sale_df)
            arts_alt_line_chart(
                melt(args.df, << "DATETIME" >>,
                     << "Average Sale", "Cheapest NFT", "Most Expensive NFT" >>),
                "value")

InitChart ==
    /\ chart_fn \in ChartBuilders
    /\ chart_input \in ChartInputs(chart_fn)
    /\ chart = NoChart
    /\ selection = EMPTY
    /\ pointer = Outside
    /\ FinIdle
    /\ DecIdle
    /\ GiniIdle
    /\ EpochsIdle
    /\ CacheIdle
    /\ PageIdle

\* the page calls the builder and st.altair_chart renders the chart: the
\* selection of a new view is empty
BuildChart ==
    /\ chart = NoChart
    /\ chart' = build_chart(chart_fn, chart_input)
    /\ selection' = EMPTY
    /\ pointer' = Outside
    /\ UNCHANGED << chart_fn, chart_input, finVars, decVars, giniVars, epochsVars,
                    cacheVars, pageVars >>

\* the pointer enters the chart or moves over it: a mouseover event at p
Mouseover ==
    /\ chart # NoChart
    /\ \E p \in PointerPositions :
         LET layer == selection_layer(chart)
             hit   == event_marks(layer, p)
         IN  /\ pointer' = Over(p)
             /\ IF layer.selection.on = "mouseover" /\ hit # { }
                THEN \E r \in hit : selection' = ACTIVE(r[layer.selection.fields[1]])
                ELSE selection' = selection
    /\ UNCHANGED << chart_fn, chart_input, chart, finVars, decVars, giniVars,
                    epochsVars, cacheVars, pageVars >>

\* the pointer leaves the chart: a mouseout event
Mouseout ==
    /\ chart # NoChart
    /\ pointer.over
    /\ pointer' = Outside
    /\ selection' = IF selection_layer(chart).selection.clear = "mouseout" THEN EMPTY
                    ELSE selection
    /\ UNCHANGED << chart_fn, chart_input, chart, finVars, decVars, giniVars,
                    epochsVars, cacheVars, pageVars >>

NextChart ==
    \/ BuildChart
    \/ Mouseover
    \/ Mouseout

SpecChart == InitChart /\ [][NextChart]_vars

\* the rule layer of a chart, its temporal field and the dates of its data
RuleOf(c) == c[CHOOSE i \in 1..Len(c) : c[i].mark = "rule"]
DateField(c) == RuleOf(c).selection.fields[1]
DatesOf(c) == Range(column(RuleOf(c).data, DateField(c)))

\* the builders C15 names
PivotBuilders ==
    { "utils.alt_line_chart", "alt_date_line", "alt_farm_date_line", "alt_lines_bar",
      "alt_pool_liquidity" }

NearestDates(c, p) ==
    { d \in DatesOf(c) : \A e \in DatesOf(c) : abs(d - p) <= abs(e - p) }

\* what a state of a rendered chart shows for its selection
HoverShown ==
    LET rule == RuleOf(chart)
        rows == transform_pivot_rows(rule)
    IN  /\ selection.state \in { "EMPTY", "ACTIVE" }
        /\ ~pointer.over => selection = EMPTY
        /\ (pointer.over /\ DatesOf(chart) # { }) =>
                /\ selection.state = "ACTIVE"
                /\ selection.date \in NearestDates(chart, pointer.x)
        /\ selection = EMPTY => \A r \in rows : opacity(rule, selection, r) = "0"
        /\ selection.state = "ACTIVE" =>
                /\ \E r \in rows : r[DateField(chart)] = selection.date
                /\ \A r \in rows :
                      opacity(rule, selection, r) =
                          IF r[DateField(chart)] = selection.date THEN "0.3" ELSE "0"

\* C16: the hover selection of every chart with a hover rule starts EMPTY, is
\* ACTIVE(d) with d the date nearest the pointer while the pointer is over the
\* chart and EMPTY again once it has left; the rule is drawn with opacity 0.3
\* at the selected date while ACTIVE and with opacity 0 while EMPTY; no event
\* changes the chart's data.
C16_HoverStateMachine ==
    /\ [](chart # NoChart => HoverShown)
    /\ [][(chart = NoChart /\ chart' # NoChart) => selection' = EMPTY]_vars
    /\ [][chart # NoChart => (chart' = chart /\ chart_input' = chart_input)]_vars

\* C16 witness: the pointer is over a chart of two series and three dates, and
\* the rule of the nearest date is the only one drawn
C16_Witness ==
    /\ chart # NoChart
    /\ Cardinality(DatesOf(chart)) >= 3
    /\ Len(RuleOf(chart).tooltip.columns) >= 2
    /\ pointer = Over(5)
    /\ selection = ACTIVE(4)
    /\ \E r \in transform_pivot_rows(RuleOf(chart)) :
            opacity(RuleOf(chart), selection, r) = "0.3"
    /\ \E r \in transform_pivot_rows(RuleOf(chart)) :
            opacity(RuleOf(chart), selection, r) = "0"

\* C17: every chart with a hover rule has a value layer, a point layer and a
\* rule layer; the point layer has the value layer's data and encoding and
\* draws a mark only for the rows at the selected date: none while EMPTY, and
\* in ACTIVE(d) one for each row at d.
C17_ThreeLayersWithPoints ==
    chart # NoChart =>
        \E v, p, r \in 1..Len(chart) :
            /\ chart[v].mark \in { "line", "area", "bar" }
            /\ chart[p].mark = "point"
            /\ chart[r].mark = "rule"
            /\ chart[p].data = chart[v].data
            /\ chart[p].x = chart[v].x
            /\ chart[p].y = chart[v].y
            /\ chart[p].color = chart[v].color
            /\ marks(chart[p], selection) =
                  { i \in 1..Len(chart[p].data) :
                      /\ selection.state = "ACTIVE"
                      /\ chart[p].data[i][DateField(chart)] = selection.date }

-----------------------------------------------------------------------------
(* get_validator_epochs of near/gov/gov_utils.py: the paginated indexer      *)
(* The indexer answers GET .../validators/{validator}/epochs with            *)
(* {"records": [...], "pages": N}; without a page parameter it serves page 1. *)
(* A last_time is the year it lies in.                                       *)

\* most pages the indexer reports
MaxPages == 3

\* the params of a GET request
NoPage == [ has_page |-> FALSE, page |-> 0 ]
Page(i) == [ has_page |-> TRUE, page |-> i ]

\* r.json() of the response to a request
response(ix, req) ==
    LET p == IF req.has_page THEN req.page ELSE 1
    IN  [ records |-> IF p \in DOMAIN ix.records THEN ix.records[p] ELSE << >>,
          pages   |-> ix.pages ]

\* a faulty variant of page_range: range(2, pages)
page_range_short(p) == 2..(p - 1)

\* range(2, pages + 1)
page_range(p) == 2..p

\* convert_to_near, for each element: int(x) / 10**24
convert_to_near(yNEAR) == FloatDiv(Float64(DigitsValue(yNEAR), 0), Num(1, 24))

EpochRecord(e, t, b) == [ epoch |-> e, last_time |-> t, staking_balance |-> b ]

\* the records a page can hold; the indexer has records dated at the Unix epoch
PageContents ==
    { << >>,
      << EpochRecord(1, 2022, << "5", "0" >>) >>,
      << EpochRecord(2, 2022, << "7" >>), EpochRecord(3, 1970, << "0" >>) >> }

Indexers ==
    UNION { { [ pages |-> n, records |-> r ] : r \in [1..n -> PageContents] } :
              n \in 0..MaxPages }

InitEpochs ==
    /\ indexer \in Indexers
    /\ epochs_requests = << >>
    /\ epochs_data = << >>
    /\ epochs_pages = 0
    /\ epochs_i = 0
    /\ epochs_pc = "start"
    /\ epochs_df = << >>
    /\ FinIdle
    /\ DecIdle
    /\ GiniIdle
    /\ ChartIdle
    /\ CacheIdle
    /\ PageIdle

\* lines 118-124: the first request, without params, and the loop's entry
FirstRequest ==
    /\ epochs_pc = "start"
    /\ LET p1 == response(indexer, NoPage)
       IN  /\ epochs_requests' = Append(epochs_requests, NoPage)
           /\ epochs_data' = epochs_data \o p1.records
           /\ epochs_pages' = p1.pages
           /\ epochs_i' = 2
           /\ epochs_pc' = IF p1.pages > 1 /\ 2 \in page_range(p1.pages) THEN "loop"
                           ELSE "frame"
    /\ UNCHANGED << indexer, epochs_df, finVars, decVars, giniVars, chartVars,
                    cacheVars, pageVars >>

\* lines 125-127: one pass of the loop body, and the step to the next i
NextPage ==
    /\ epochs_pc = "loop"
    /\ LET p1 == response(indexer, Page(epochs_i))
       IN  /\ epochs_requests' = Append(epochs_requests, Page(epochs_i))
           /\ epochs_data' = epochs_data \o p1.records
    /\ epochs_i' = epochs_i + 1
    /\ epochs_pc' = IF epochs_i + 1 \in page_range(epochs_pages) THEN "loop" ELSE "frame"
    /\ UNCHANGED << indexer, epochs_pages, epochs_df, finVars, decVars, giniVars,
                    chartVars, cacheVars, pageVars >>

\* lines 129-136: the DataFrame of the records; without any record it has no
\* staking_balance column and df.staking_balance raises AttributeError
Frame ==
    /\ epochs_pc = "frame"
    /\ IF epochs_data = << >>
       THEN /\ epochs_pc' = "raised"
            /\ epochs_df' = << >>
       ELSE /\ epochs_pc' = "done"
            /\ epochs_df' =
                 SelectSeq([ i \in 1..Len(epochs_data) |->
                               [ epoch |-> epochs_data[i].epoch,
                                 last_time |-> epochs_data[i].last_time,
                                 staking_balance |-> epochs_data[i].staking_balance,
                                 StakingBalanceNEAR |->
                                    convert_to_near(epochs_data[i].staking_balance) ] ],
                           LAMBDA r : r.last_time >= 2019)
    /\ UNCHANGED << indexer, epochs_requests, epochs_data, epochs_pages, epochs_i,
                    finVars, decVars, giniVars, chartVars, cacheVars, pageVars >>

NextEpochs ==
    \/ FirstRequest
    \/ NextPage
    \/ Frame

SpecEpochs == InitEpochs /\ [][NextEpochs]_vars

\* the call runs to its end: no step of it waits for anything but the response
FairSpecEpochs == SpecEpochs /\ WF_vars(NextEpochs)

\* the requests of a call that found N pages: one without params, then page 2..N
RECURSIVE RequestsFor(_)
RequestsFor(n) ==
    IF n <= 1 THEN << NoPage >> ELSE Append(RequestsFor(n - 1), Page(n))

\* the records of pages 1..n of the indexer, in page order
RECURSIVE RecordsUpTo(_, _)
RecordsUpTo(ix, n) ==
    IF n = 0 THEN << >> ELSE RecordsUpTo(ix, n - 1) \o ix.records[n]

IsPrefix(s, t) == Len(s) <= Len(t) /\ s = SubSeq(t, 1, Len(s))

\* C18: when the first response reports pages = N, get_validator_epochs makes
\* exactly max(N, 1) GET requests (the first without a page parameter, then
\* page = 2, ..., N in increasing order, each once), its loop terminates, and
\* the collected records are the records of pages 1..N in page order.
C18_Pagination ==
    /\ [](epochs_pc # "start" =>
            /\ epochs_pages = indexer.pages
            /\ IsPrefix(epochs_requests, RequestsFor(indexer.pages)))
    /\ [](epochs_pc \in { "frame", "done", "raised" } =>
            /\ epochs_requests = RequestsFor(indexer.pages)
            /\ epochs_data = RecordsUpTo(indexer, indexer.pages))
    /\ <>(epochs_pc \in { "done", "raised" })

\* C18 witness: a call that found three pages has returned, having made three
\* requests and collected records from more than one page
C18_Witness ==
    /\ epochs_pc = "done"
    /\ indexer.pages = 3
    /\ Len(epochs_requests) = 3
    /\ indexer.records[1] # << >>
    /\ indexer.records[3] # << >>
    /\ Len(epochs_data) >= 3
    /\ Len(epochs_df) < Len(epochs_data)

-----------------------------------------------------------------------------
(* The result cache: @st.cache(ttl=...) on the fetch functions                *)
(* st.cache keeps one cachetools.TTLCache per decorated function, keyed by   *)
(* the call's arguments.  A call reads the cache; on a miss it runs the      *)
(* function body and then writes the result, and holds no lock from the read *)
(* to the write.  The clock counts seconds.                                  *)

\* most cached calls the renders make in all
MaxCalls == 3

\* most changes of one upstream resource
MaxVersion == 1

\* the ttl argument of every st.cache decorator, in seconds
ttl ==
    [ f \in { "fin_utils.get_ref_data" }            |-> 3600 ] @@
    [ f \in { "fin_utils.get_lp", "fin_utils.get_price", "fin_utils.get_accounts",
              "fin_utils.load_data", "fin_utils.get_rewards_by_token",
              "fin_utils.get_pool_deposit_withdraws" } |-> 3600 * 12 ] @@
    [ f \in { "journey_utils.load_data" }           |-> 60 * 60 ] @@
    [ f \in { "gov_utils.get_blocktimes", "gov_utils.get_status",
              "gov_utils.get_account_info", "gov_utils.get_blocks",
              "gov_utils.get_epochs", "gov_utils.get_validators",
              "gov_utils.get_validator_epochs" }    |-> 60 ] @@
    [ f \in { "gov_utils.load_data" }               |-> 3600 * 6 ] @@
    [ f \in { "gov_utils.get_fs_validator_data" }   |-> 12 * 60 ] @@
    [ f \in { "utils.load_data" }                   |-> 60 * 30 ] @@
    [ f \in { "Arts_District.get_flipside_data",
              "Arts_District.load_data" }           |-> 24 * 60 ]

\* a cached call, function and arguments, and the calls the renders of a
\* page make: a page's renders call one of them
Key(f, a) == [ fn |-> f, args |-> a ]
Keys ==
    { Key("fin_utils.get_price", "wrap.near"), Key("gov_utils.get_blocktimes", ""),
      Key("Arts_District.load_data", "") }
NoKey == Key("", "")

Renders == { 1, 2 }

\* a cache slot: TTLCache keeps the value and its expiry; writes counts the
\* writes to the slot
NoEntry == [ stored |-> FALSE, value |-> 0, expires |-> 0, writes |-> 0 ]

\* a faulty variant of valid: an entry never expires
valid_forever(e, now, at_expiry) == e.stored

\* TTLCache's read: an entry is served while the timer is below its expiry;
\* at the expiry itself cachetools 4 still serves it and cachetools 5 does not
valid(e, now, at_expiry) ==
    /\ e.stored
    /\ \/ now < e.expires
       \/ now = e.expires /\ at_expiry

\* TTLCache's write: expires = timer() + ttl
entry(v, now, f, e) ==
    [ stored |-> TRUE, value |-> v, expires |-> now + ttl[f], writes |-> e.writes + 1 ]

IdleRender ==
    [ pc |-> "idle", key |-> NoKey, result |-> 0, fetched |-> FALSE, seen |-> 0,
      calls |-> 0 ]

\* the calls made so far by the renders in rs
RECURSIVE SumOfCalls(_, _)
SumOfCalls(rd, rs) ==
    IF rs = { } THEN 0
    ELSE LET r == CHOOSE x \in rs : TRUE
         IN  rd[r].calls + SumOfCalls(rd, rs \ { r })

InitCache ==
    /\ clock = 0
    /\ \E key \in Keys :
         /\ mem_cache = [ k \in { key } |-> NoEntry ]
         /\ upstream = [ k \in { key } |-> 0 ]
         /\ fetches = [ k \in { key } |-> 0 ]
    /\ render = [ r \in Renders |-> IdleRender ]
    /\ FinIdle
    /\ DecIdle
    /\ GiniIdle
    /\ ChartIdle
    /\ EpochsIdle
    /\ PageIdle

\* a render calls a cached function: the cache is read, and a valid entry's
\* value is returned; otherwise the function body is entered
Call(r, k) ==
    /\ render[r].pc \in { "idle", "returned" }
    /\ SumOfCalls(render, Renders) < MaxCalls
    /\ \E at_expiry \in BOOLEAN :
         render' = [ render EXCEPT ![r] =
                       IF valid(mem_cache[k], clock, at_expiry)
                       THEN [ pc |-> "returned", key |-> k,
                              result |-> mem_cache[k].value, fetched |-> FALSE,
                              seen |-> mem_cache[k].writes, calls |-> @.calls + 1 ]
                       ELSE [ pc |-> "fetching", key |-> k, result |-> 0,
                              fetched |-> TRUE, seen |-> mem_cache[k].writes,
                              calls |-> @.calls + 1 ] ]
    /\ UNCHANGED << clock, mem_cache, upstream, fetches, finVars, decVars, giniVars,
                    chartVars, epochsVars,
                    pageVars >>

\* the function body: one request to the upstream service
Fetch(r) ==
    /\ render[r].pc = "fetching"
    /\ render' = [ render EXCEPT ![r].pc = "store",
                                 ![r].result = upstream[render[r].key] ]
    /\ fetches' = [ fetches EXCEPT ![render[r].key] = @ + 1 ]
    /\ UNCHANGED << clock, mem_cache, upstream, finVars, decVars, giniVars, chartVars,
                    epochsVars,
                    pageVars >>

\* the result is written to the cache and returned
Store(r) ==
    /\ render[r].pc = "store"
    /\ mem_cache' = [ mem_cache EXCEPT ![render[r].key] =
                        entry(render[r].result, clock, render[r].key.fn, @) ]
    /\ render' = [ render EXCEPT ![r].pc = "returned" ]
    /\ UNCHANGED << clock, upstream, fetches, finVars, decVars, giniVars, chartVars,
                    epochsVars,
                    pageVars >>

\* time passes, up to the second before, the second of, or the second after
\* the expiry of an entry
Tick ==
    /\ \E k \in DOMAIN mem_cache, d \in { -1, 0, 1 } :
         /\ mem_cache[k].stored
         /\ mem_cache[k].expires + d > clock
         /\ clock' = mem_cache[k].expires + d
    /\ UNCHANGED << mem_cache, upstream, fetches, render, finVars, decVars, giniVars,
                    chartVars, epochsVars,
                    pageVars >>

\* the upstream service's data changes
UpstreamChange(k) ==
    /\ upstream[k] < MaxVersion
    /\ upstream' = [ upstream EXCEPT ![k] = @ + 1 ]
    /\ UNCHANGED << clock, mem_cache, fetches, render, finVars, decVars, giniVars,
                    chartVars, epochsVars,
                    pageVars >>

Calls == \E r \in Renders, k \in DOMAIN mem_cache : Call(r, k)
Fetches == \E r \in Renders : Fetch(r)
Stores == \E r \in Renders : Store(r)
UpstreamChanges == \E k \in DOMAIN upstream : UpstreamChange(k)

NextCache ==
    \/ Calls
    \/ Fetches
    \/ Stores
    \/ Tick
    \/ UpstreamChanges

SpecCache == InitCache /\ [][NextCache]_vars

\* render r starts a call of k in this step
Calling(r, k) == render'[r].calls = render[r].calls + 1 /\ render'[r].key = k

\* C19: a cached call made before the entry's time-to-live has elapsed returns
\* the stored result without an upstream request; the first call made after
\* it has elapsed runs the fetch again (one upstream request, whose result is
\* returned and stored for a further time-to-live); and every configured
\* time-to-live lies between 60 seconds and 12 hours.
C19_TimeToLive ==
    /\ [](\A f \in DOMAIN ttl : 60 <= ttl[f] /\ ttl[f] <= 12 * 60 * 60)
    /\ [][\A r \in Renders, k \in DOMAIN mem_cache :
            Calling(r, k) /\ mem_cache[k].stored /\ clock < mem_cache[k].expires =>
              /\ render'[r].pc = "returned"
              /\ render'[r].result = mem_cache[k].value
              /\ fetches' = fetches
              /\ mem_cache' = mem_cache]_vars
    /\ [][\A r \in Renders, k \in DOMAIN mem_cache :
            Calling(r, k) /\ mem_cache[k].stored /\ clock > mem_cache[k].expires =>
              render'[r].pc = "fetching"]_vars
    /\ [][\A r \in Renders :
            render[r].pc = "fetching" /\ render'[r].pc # "fetching" =>
              /\ fetches'[render[r].key] = fetches[render[r].key] + 1
              /\ render'[r].result = upstream[render[r].key]]_vars
    /\ [][\A r \in Renders :
            render[r].pc = "store" /\ render'[r].pc # "store" =>
              /\ render'[r].pc = "returned"
              /\ render'[r].result = render[r].result
              /\ mem_cache'[render[r].key].value = render[r].result
              /\ mem_cache'[render[r].key].expires = clock + ttl[render[r].key.fn]]_vars

\* C19 witness: one render has been served a stored result that is older than
\* the upstream data, and the other has fetched again after the entry it found
\* had expired
C19_Witness ==
    \E r1, r2 \in Renders, k \in DOMAIN mem_cache :
      /\ r1 # r2
      /\ render[r1].pc = "returned" /\ render[r1].key = k /\ ~render[r1].fetched
      /\ render[r1].result < upstream[k]
      /\ render[r2].pc = "returned" /\ render[r2].key = k /\ render[r2].fetched
      /\ render[r2].seen = 1
      /\ fetches[k] = 2
      /\ clock > ttl[k.fn]

\* render r found no valid entry for its key
Missed(r) == render[r].pc \in { "fetching", "store", "returned" } /\ render[r].fetched

-----------------------------------------------------------------------------
(* Calls of get_price_df within the time-to-live of get_price's entries:     *)
(* get_rewards_by_token, get_pool_deposit_withdraws and alt_date_line, each  *)
(* starting with the cache as the calls before it left it.                   *)

\* the amount rows of the calls
CallRows ==
    { << AmountRow("usdc.token", 24, <<"5","0","0","0","0","0","0">>, <<"2","5","0">>),
         AmountRow("wrap.near", 24, <<"5","0","0","0","0","0","0">>, <<"2","5","0">>) >>,
      << AmountRow("usdc.token", 24, <<"5","0","0","0","0","0","0">>, <<"2","5","0">>),
         AmountRow("usdc.token", 48, <<"1","5","0","0">>, <<"2","0">>) >>,
      << AmountRow("wrap.near", 48, <<"2","0">>, <<"2","0">>) >> }

\* the tokens of the metadata tables, whose prices earlier calls may have cached
CachedTokens == { "usdc.token", "wrap.near" }

\* what earlier calls left in the cache: the responses c, as they were fetched,
\* for the tokens in has
CacheContents(has, c) == [ t \in TokenIds |-> IF t \in has THEN Cached(c[t]) ELSE NotCached ]

\* the tokens picked in the multiselect of a price chart
TokenLists == { << "USDC" >>, << "wNEAR" >>, << "USDC", "wNEAR" >>, << "wNEAR", "USDC" >> }

\* alt_date_line is called with a base_df that has symbol and token_id columns:
\* the normalised rewards table
InitCalls ==
    /\ fn \in { "get_rewards_by_token", "get_pool_deposit_withdraws", "alt_date_line" }
    /\ ft \in FtTables
    /\ dfs \in CallRows
    /\ \E has \in SUBSET CachedTokens, c \in [ CachedTokens -> PriceResponses ] :
         price_cache = CacheContents(has, c)
    /\ pc = IF fn = "alt_date_line" THEN "select" ELSE "start"
    /\ table = IF fn = "alt_date_line" THEN normalise("get_rewards_by_token", dfs, ft)
               ELSE << >>
    /\ token_ids = << >>
    /\ token_list = << >>
    /\ zip_i = 0
    /\ price_dfs = << >>
    /\ price_df = << >>
    /\ exc = ""
    /\ DecIdle
    /\ GiniIdle
    /\ ChartIdle
    /\ EpochsIdle
    /\ CacheIdle
    /\ PageIdle

\* alt_date_line, line 352: get_price_df(token_list, base_df) up to its loop
EnterAltDateLine ==
    /\ UNCHANGED << decVars, giniVars, chartVars, epochsVars, cacheVars, pageVars >>
    /\ pc = "select"
    /\ \E list \in TokenLists :
         /\ token_list' = list
         /\ token_ids' = price_token_ids(list, table)
    /\ zip_i' = 1
    /\ price_dfs' = << >>
    /\ pc' = "zip"
    /\ UNCHANGED << fn, ft, dfs, price_cache, table, price_df, exc >>

\* alt_date_line, lines 353-355: sort_values(by="date") and the date window
Window ==
    /\ UNCHANGED << decVars, giniVars, chartVars, epochsVars, cacheVars, pageVars >>
    /\ pc = "window"
    /\ \E date_range \in DateRanges :
         price_df' = IF date_range.is_int
                     THEN iloc_last(sort_values(price_df, "date"), date_range.days)
                     ELSE sort_values(price_df, "date")
    /\ pc' = "done"
    /\ UNCHANGED << fn, ft, dfs, price_cache, table, token_ids, token_list, zip_i,
                    price_dfs, exc >>

NextCalls ==
    \/ Normalise
    \/ EnterGetPriceDf
    \/ EnterAltDateLine
    \/ GetPriceCached
    \/ GetPriceFetched
    \/ GetPriceUnreachable
    \/ Concat
    \/ TruncateDates
    \/ Join
    \/ Window

SpecCalls == InitCalls /\ [][NextCalls]_vars

\* C21: the cached price series of get_price is never modified after it is
\* fetched: through every call of get_rewards_by_token,
\* get_pool_deposit_withdraws and alt_date_line, whatever the cache held
\* before, an entry of the cache keeps exactly the rows and the columns (date
\* and price) of the response that was fetched.
C21_CachedSeriesUnmodified ==
    /\ [](\A t \in TokenIds :
            price_cache[t].cached =>
              \A i \in 1..Len(price_cache[t].df) :
                DOMAIN price_cache[t].df[i] = { "date", "price" })
    /\ [][\A t \in TokenIds :
            price_cache[t].cached => price_cache'[t] = price_cache[t]]_vars

\* C21 witness: a call has ended after get_price_df tagged two copies of one
\* token's cached series, and the entry has no Token ID column
C21_Witness ==
    /\ pc = "done"
    /\ \E i, j \in 1..Len(price_dfs) :
         /\ i < j
         /\ price_dfs[i][1].TokenID = price_dfs[j][1].TokenID
         /\ price_cache[price_dfs[i][1].TokenID].cached
         /\ DOMAIN price_cache[price_dfs[i][1].TokenID].df[1] = { "date", "price" }
         /\ DOMAIN price_dfs[j][1] = { "date", "price", "TokenID", "Symbol" }

-----------------------------------------------------------------------------
(* The pure transforms and their arguments: gini and get_decimals *)

InitTransforms ==
    \/ InitGini
    \/ InitDecimals

NextTransforms ==
    \/ CallGiniGov
    \/ CallGiniJourney
    \/ CallGiniGovScaled
    \/ CallGiniJourneyScaled
    \/ CallGetDecimals
    \/ Divide

SpecTransforms == InitTransforms /\ [][NextTransforms]_vars

\* C22: the pure transforms leave their inputs unchanged: no call of gini
\* changes the caller's array (no shift, no epsilon), and no call of
\* get_decimals changes the metadata table ft.
C22_InputsUnchanged == [][array' = array /\ ft' = ft]_vars

\* C22 witness: both gini functions have returned a value for an array with a
\* negative and a zero element, which gini shifts and adds epsilon to
C22_Witness ==
    /\ gini_pc = "done"
    /\ array # << >>
    /\ amin(array) < 0
    /\ 0 \in Range(array)
    /\ gini_gov \notin { GiniNone, GiniRaised }
    /\ gini_journey \notin { GiniNone, GiniRaised }

-----------------------------------------------------------------------------
(* Page scripts.  Streamlit runs a page's script from top to bottom on every *)
(* render; an exception no try block catches ends the run, and the elements  *)
(* written before it stay on the page.                                       *)
(*   pages/1_Arts_District.py, from the collection panel (line 443) on       *)
(*   pages/3_Local_Government.py, the "My representative" section (130-195)  *)

\* the collections whose sales are precomputed in near/art/*.csv
Precomputed == { "secretskelliessociety.near", "nearnautnft.near", "asac.near" }

\* what the user can enter in the collection panel
CollectionInputs ==
    { [ col_id |-> c, update_cache |-> u ] :
        c \in { "asac.near", "unknown.near" }, u \in BOOLEAN }

\* how the collection panel's try block (lines 445-476) can go, with what
\* collection_data is bound to when the block is left:
\*   the request or r.json()["data"]["results"] raises   -> never assigned
\*   no result, or add_collection_stats raises           -> the list of results
\*   a result without creator_id or without collection   -> a dict
\*   everything is there                                 -> a dict
LookupOutcomes ==
    { [ raised |-> "ConnectionError", collection_data |-> "unbound" ],
      [ raised |-> "KeyError",        collection_data |-> "unbound" ],
      [ raised |-> "IndexError",      collection_data |-> "list" ],
      [ raised |-> "ConnectionError", collection_data |-> "list" ],
      [ raised |-> "KeyError",        collection_data |-> "dict without collection" ],
      [ raised |-> "KeyError",        collection_data |-> "dict" ],
      [ raised |-> "",                collection_data |-> "dict" ] }

\* collection_data['collection'], lines 134 and 598
collection_title(binding) ==
    CASE binding = "unbound" -> "NameError"
      [] binding = "list" -> "TypeError"
      [] binding = "dict without collection" -> "KeyError"
      [] OTHER -> ""

\* sdk.query(q, cached=cached): rows, shroomdk's UserError, or another error
SdkOutcomes == { "rows", "UserError", "ServerError" }

\* the st.cache-decorated loader of the page and the key of its call
Loader(pg) ==
    IF pg = "Arts_District" THEN "Arts_District.get_flipside_data"
    ELSE "gov_utils.get_fs_validator_data"
LoaderKey(pg, cached) == Key(Loader(pg), IF cached THEN "cached=True" ELSE "cached=False")
LoaderKeys(pg) == { LoaderKey(pg, c) : c \in BOOLEAN }

\* the page renders one second after the cache timer's origin
RenderTime == 1

\* what st.cache can hold for a call of the loader when the render starts:
\* nothing, a result stored a second ago, a result that has expired
LoaderEntries(pg) ==
    { NoEntry,
      entry(0, 0, Loader(pg), NoEntry),
      [ stored |-> TRUE, value |-> 0, expires |-> 0, writes |-> 1 ] }

LoaderCall(cached, issued, outcome) ==
    [ cached |-> cached, issued |-> issued, outcome |-> outcome ]

InitPages ==
    /\ page \in { "Arts_District", "Local_Government" }
    /\ page_in \in IF page = "Arts_District" THEN CollectionInputs
                   ELSE { [ validator |-> "epic.poolv1.near" ] }
    /\ page_pc = IF page = "Arts_District" THEN "collection" ELSE "load"
    /\ page_env = [ collection_data |-> "unbound", df |-> "unbound" ]
    /\ page_out = << >>
    /\ page_exc = ""
    /\ queries = << >>
    /\ clock = RenderTime
    /\ mem_cache \in [ LoaderKeys(page) -> LoaderEntries(page) ]
    /\ upstream = << >>
    /\ fetches = << >>
    /\ render = << >>
    /\ FinIdle
    /\ DecIdle
    /\ GiniIdle
    /\ ChartIdle
    /\ EpochsIdle

\* Arts District, lines 443-478: the collection panel; its except clause
\* catches every exception and writes the error text
CollectionPanel ==
    /\ page_pc = "collection"
    /\ \E o \in LookupOutcomes :
         /\ page_env' = [ page_env EXCEPT !.collection_data = o.collection_data ]
         /\ page_out' = Append(page_out, IF o.raised = "" THEN "collection"
                                         ELSE "Error processing")
    /\ page_pc' = "load"
    /\ UNCHANGED << page, page_in, page_exc, queries, clock, mem_cache, upstream,
                    fetches, render, finVars, decVars, giniVars, chartVars,
                    epochsVars >>

\* Arts District, lines 559-564: a precomputed collection is read from its file
ReadCsv ==
    /\ page = "Arts_District"
    /\ page_pc = "load"
    /\ page_in.col_id \in Precomputed /\ ~page_in.update_cache
    /\ page_env' = [ page_env EXCEPT !.df = "read_csv" ]
    /\ page_pc' = "loaded"
    /\ UNCHANGED << page, page_in, page_out, page_exc, queries, clock, mem_cache,
                    upstream, fetches, render, finVars, decVars, giniVars, chartVars,
                    epochsVars >>

\* a faulty variant of after_load: every error is retried with cached=False
after_load_retry_all(cached, outcome) ==
    CASE outcome = "rows" -> "loaded"
      [] cached -> "retry"
      [] OTHER -> "raised"

\* where the try statement goes after a call of the loader: on, into the
\* except errors.UserError clause, or out of the script
after_load(cached, outcome) ==
    CASE outcome = "rows" -> "loaded"
      [] outcome = "UserError" /\ cached -> "retry"
      [] OTHER -> "raised"

\* one call of the loader: st.cache answers it from a valid entry; otherwise
\* the body issues sdk.query, and a returned frame is stored
LoaderCalled(cached) ==
    LET k == LoaderKey(page, cached)
    IN  \E at_expiry \in BOOLEAN, o \in SdkOutcomes :
          LET hit     == valid(mem_cache[k], clock, at_expiry)
              outcome == IF hit THEN "rows" ELSE o
              to      == after_load(cached, outcome)
          IN  /\ queries' = Append(queries, LoaderCall(cached, ~hit, outcome))
              /\ mem_cache' = IF ~hit /\ outcome = "rows"
                              THEN [ mem_cache EXCEPT ![k] =
                                       entry(0, clock, Loader(page), @) ]
                              ELSE mem_cache
              /\ page_pc' = to
              /\ page_exc' = IF to = "raised" THEN outcome ELSE page_exc
              /\ page_env' = IF to = "loaded" THEN [ page_env EXCEPT !.df = "flipside" ]
                             ELSE page_env

\* Arts District 565-569, Local Government 132-133: try: df = loader(cached=True)
LoadCachedTrue ==
    /\ page_pc = "load"
    /\ page = "Arts_District" =>
         ~(page_in.col_id \in Precomputed /\ ~page_in.update_cache)
    /\ LoaderCalled(TRUE)
    /\ UNCHANGED << page, page_in, page_out, clock, upstream, fetches, render,
                    finVars, decVars, giniVars, chartVars, epochsVars >>

\* except errors.UserError: df = loader(cached=False)
LoadCachedFalse ==
    /\ page_pc = "retry"
    /\ LoaderCalled(FALSE)
    /\ UNCHANGED << page, page_in, page_out, clock, upstream, fetches, render,
                    finVars, decVars, giniVars, chartVars, epochsVars >>

\* Arts District, lines 573-593: the daily sale prices of the collection;
\* alt_line_chart builds its title from collection_data['collection'] (line 134)
SaleLineChart ==
    /\ page = "Arts_District"
    /\ page_pc = "loaded"
    /\ LET e == collection_title(page_env.collection_data)
       IN  IF e = ""
           THEN /\ page_out' = Append(page_out, "sale prices")
                /\ page_pc' = "volume"
                /\ UNCHANGED page_exc
           ELSE /\ page_exc' = e
                /\ page_pc' = "raised"
                /\ UNCHANGED page_out
    /\ UNCHANGED << page, page_in, page_env, queries, clock, mem_cache, upstream,
                    fetches, render, finVars, decVars, giniVars, chartVars,
                    epochsVars >>

\* Arts District, lines 595-640: the sale volume chart, whose title reads
\* collection_data['collection']
SaleVolumeChart ==
    /\ page_pc = "volume"
    /\ LET e == collection_title(page_env.collection_data)
       IN  IF e = ""
           THEN /\ page_out' = Append(page_out, "sale volume")
                /\ page_pc' = "done"
                /\ UNCHANGED page_exc
           ELSE /\ page_exc' = e
                /\ page_pc' = "raised"
                /\ UNCHANGED page_out
    /\ UNCHANGED << page, page_in, page_env, queries, clock, mem_cache, upstream,
                    fetches, render, finVars, decVars, giniVars, chartVars,
                    epochsVars >>

\* Local Government, lines 137-195: the charts of the chosen validator
RepresentativeCharts ==
    /\ page = "Local_Government"
    /\ page_pc = "loaded"
    /\ page_out' = Append(page_out, "Year to date record")
    /\ page_pc' = "done"
    /\ UNCHANGED << page, page_in, page_env, page_exc, queries, clock, mem_cache,
                    upstream, fetches, render, finVars, decVars, giniVars, chartVars,
                    epochsVars >>

\* The address lookup of the main page, NEAR_Directory.py lines 35-76.  An
\* address is known by its length and by whether it ends with ".near".
MaxTx == 3

Address(length, suffix) == [ length |-> length, suffix |-> suffix ]

\* what the user can type into "Near Address:"
Addresses ==
    { Address(0, ""), Address(4, ""), Address(63, ""), Address(64, ""), Address(65, ""),
      Address(5, ".near"), Address(10, ".near"), Address(64, ".near") }

\* address.endswith(".near") and len(address)
endswith_near(address) == address.suffix = ".near"
len(address) == address.length

\* what get_user_query can hand back: the TX_STATUS column of the address's
\* transactions, none included, or an error of the query
TxStatuses == { "Success", "Fail" }
UserQueryResults ==
    { [ raised |-> "", TX_STATUS |-> t ] : t \in SeqsUpTo(TxStatuses, MaxTx) }
      \cup { [ raised |-> e, TX_STATUS |-> << >> ] : e \in { "UserError", "ServerError" } }

NoLookup ==
    [ returned |-> FALSE, TX_STATUS |-> << >>, n_tx |-> 0, success_tx |-> 0, fail_tx |-> 0 ]

InitDirectory ==
    /\ page = "NEAR_Directory"
    /\ page_in \in { [ address |-> a ] : a \in Addresses }
    /\ page_pc = "address"
    /\ page_env = NoLookup
    /\ page_out = << >>
    /\ page_exc = ""
    /\ queries = << >>
    /\ CacheIdle
    /\ FinIdle
    /\ DecIdle
    /\ GiniIdle
    /\ ChartIdle
    /\ EpochsIdle

\* lines 35-39: nothing for an empty address, the message for an invalid one
AddressEntered ==
    /\ page_pc = "address"
    /\ LET address == page_in.address
       IN  IF len(address) = 0
           THEN /\ page_pc' = "done"
                /\ UNCHANGED page_out
           ELSE IF ~endswith_near(address) /\ len(address) # 64
           THEN /\ page_out' = Append(page_out, "Invalid NEAR address")
                /\ page_pc' = "done"
           ELSE /\ page_out' = Append(page_out, "Loading data from Flipside Crypto...")
                /\ page_pc' = "query"
    /\ UNCHANGED << page, page_in, page_env, page_exc, queries, cacheVars, finVars,
                    decVars, giniVars, chartVars, epochsVars >>

\* line 41: df = get_user_query(address)
UserQuery ==
    /\ page_pc = "query"
    /\ queries' = Append(queries, [ address |-> page_in.address ])
    /\ \E r \in UserQueryResults :
         IF r.raised # ""
         THEN /\ page_exc' = r.raised
              /\ page_pc' = "raised"
              /\ UNCHANGED page_env
         ELSE /\ page_env' = [ page_env EXCEPT !.returned = TRUE, !.TX_STATUS = r.TX_STATUS ]
              /\ page_pc' = "metrics"
              /\ UNCHANGED page_exc
    /\ UNCHANGED << page, page_in, page_out, cacheVars, finVars, decVars, giniVars,
                    chartVars, epochsVars >>

\* lines 42-55: the counts and the success rate, then the four metrics
TransactionMetrics ==
    /\ page_pc = "metrics"
    /\ LET df         == page_env.TX_STATUS
           success_df == SelectSeq(df, LAMBDA status : status = "Success")
           n_tx       == Len(df)
           success_tx == Len(success_df)
           fail_tx    == n_tx - success_tx
       IN  IF n_tx = 0
           THEN \* success_rate = success_tx / n_tx
                /\ page_exc' = "ZeroDivisionError"
                /\ page_pc' = "raised"
                /\ UNCHANGED << page_env, page_out >>
           ELSE /\ page_env' = [ page_env EXCEPT !.n_tx = n_tx, !.success_tx = success_tx,
                                                 !.fail_tx = fail_tx ]
                /\ page_out' = page_out \o << "Number of transactions",
                                               "Successful transactions",
                                               "Failed transactions", "Success Rate" >>
                /\ page_pc' = "contracts"
                /\ UNCHANGED page_exc
    /\ UNCHANGED << page, page_in, queries, cacheVars, finVars, decVars, giniVars,
                    chartVars, epochsVars >>

\* lines 57-76: the contract, marketplace, Ref and staking counts; the staking
\* count needs get_validators, which raises on an empty response
ContractMetrics ==
    /\ page_pc = "contracts"
    /\ \E validators_raised \in BOOLEAN :
         IF validators_raised
         THEN /\ page_out' = page_out \o << "Unique contract interactions",
                                            "NFT marketplace transactions (Paras)",
                                            "DeFI transactions (Ref)" >>
              /\ page_exc' = "AttributeError"
              /\ page_pc' = "raised"
         ELSE /\ page_out' = page_out \o << "Unique contract interactions",
                                            "NFT marketplace transactions (Paras)",
                                            "DeFI transactions (Ref)",
                                            "NEAR staking/unstaking transactions" >>
              /\ page_pc' = "done"
              /\ UNCHANGED page_exc
    /\ UNCHANGED << page, page_in, page_env, queries, cacheVars, finVars, decVars,
                    giniVars, chartVars, epochsVars >>

NextPages ==
    \/ CollectionPanel
    \/ ReadCsv
    \/ LoadCachedTrue
    \/ LoadCachedFalse
    \/ SaleLineChart
    \/ SaleVolumeChart
    \/ RepresentativeCharts
    \/ AddressEntered
    \/ UserQuery
    \/ TransactionMetrics
    \/ ContractMetrics

InitScripts == InitPages \/ InitDirectory

SpecPages == InitScripts /\ [][NextPages]_vars

\* the script run has ended
Ended == page_pc \in { "done", "raised" }

\* C23: a failure while fetching the data of one panel fails only that panel:
\* on the Arts District page, once a failed collection lookup has shown its
\* error text, the run ends with both sale charts on the page and without an
\* unhandled exception.
C23_FailureStaysInPanel ==
    (page = "Arts_District" /\ Ended /\ "Error processing" \in Range(page_out)) =>
        /\ page_exc = ""
        /\ "sale prices" \in Range(page_out)
        /\ "sale volume" \in Range(page_out)

\* the load of the page's Flipside data is over and the loader was called
LoadEnded ==
    /\ page \in { "Arts_District", "Local_Government" }
    /\ page_pc \in { "loaded", "volume", "done", "raised" }
    /\ queries # << >>

\* the loader calls that reached sdk.query
Issued == SelectSeq(queries, LAMBDA q : q.issued)

\* C29 as stated: a load issues the query first with cached=True and a second
\* query with cached=False if and only if the first raised a UserError, at
\* most two queries in all.
C29_QueriesAsStated ==
    LoadEnded =>
        /\ Len(Issued) \in 1..2
        /\ Issued[1].cached
        /\ Len(Issued) = 2 <=> Issued[1].outcome = "UserError"
        /\ Len(Issued) = 2 => ~Issued[2].cached

\* C29, amended: a load calls the loader first with cached=True and a second
\* time with cached=False if and only if the first call raised a UserError; a
\* call issues one query unless st.cache holds a result for its arguments, and
\* then none, so at most two queries are issued; any other error propagates
\* without a retry, and a failure of the second call is not retried.
C29_LoaderCalls ==
    LoadEnded =>
        /\ Len(queries) \in 1..2
        /\ queries[1].cached
        /\ Len(queries) = 2 <=> queries[1].outcome = "UserError"
        /\ Len(queries) = 2 => ~queries[2].cached
        /\ \A i \in 1..Len(queries) :
             ~queries[i].issued =>
                 /\ queries[i].outcome = "rows"
                 /\ mem_cache[LoaderKey(page, queries[i].cached)].stored
        /\ queries[Len(queries)].outcome # "rows" =>
             /\ page_pc = "raised"
             /\ page_exc = queries[Len(queries)].outcome
        /\ queries[Len(queries)].outcome = "rows" => page_env.df = "flipside"

\* the first call raised UserError and st.cache answered the second
C29_Witness ==
    /\ LoadEnded
    /\ Len(queries) = 2
    /\ queries[1].issued /\ queries[1].outcome = "UserError"
    /\ ~queries[2].issued
    /\ page_env.df = "flipside"

\* C30: on the main page the address lookup query is issued only when the
\* address is non-empty and ends with '.near' or has length exactly 64; any
\* other non-empty address shows the invalid-address message and issues no
\* query; for an accepted address whose query returned, the four transaction
\* metrics are displayed, with failed = total - successful, also when the
\* address has no transactions.
C30_AddressLookup ==
    page = "NEAR_Directory" =>
        LET a        == page_in.address
            accepted == a.length > 0 /\ (a.suffix = ".near" \/ a.length = 64)
        IN  /\ queries # << >> => accepted
            /\ (Ended /\ a.length > 0 /\ ~accepted) =>
                 queries = << >> /\ page_out = << "Invalid NEAR address" >>
            /\ (Ended /\ page_env.returned) =>
                 /\ { "Number of transactions", "Successful transactions",
                      "Failed transactions", "Success Rate" } \subseteq Range(page_out)
                 /\ page_env.fail_tx = page_env.n_tx - page_env.success_tx
                 /\ page_env.n_tx = Len(page_env.TX_STATUS)

\* C28: alt_date_line with an integer date_range N keeps, for every selected
\* token, that token's N most recent daily prices, so that every selected token
\* still has data in the chart.
C28_WindowPerToken ==
    (/\ chart_fn = "alt_date_line"
     /\ chart # NoChart
     /\ chart_input.date_range.is_int
     /\ chart_input.date_range.days > 0) =>
        \A s \in Range(column(chart_input.price_table, "Symbol")) :
            LET of_token(df) == SelectSeq(df, LAMBDA r : r["Symbol"] = s)
            IN  of_token(chart[1].data) =
                  iloc_last(of_token(sort_values(chart_input.price_table, "date")),
                            chart_input.date_range.days)

(***************************************************************************)
(* The governors: get_validators and the "State of the Unions" and "The    *)
(* Governors" sections of the Local Government page.                       *)
(*   near/gov/gov_utils.py, get_validators (89-112), alt_rank_bar (220-253) *)
(*   pages/3_Local_Government.py, lines 42-118                             *)
(* Stakes are whole NEAR; last_time is in hours, relative to the moment    *)
(* datetime.today() is read.                                               *)
(***************************************************************************)

MaxValidators == 4

StakeValues == { 0, 1, 2 }
LastTimes == { -9, -8, 0 }

\* pd.to_datetime(datetime.today(), utc=True), the origin of last_time
today == 0

\* pd.Timedelta(8, "h")
td == 8

\* one validator of Figment's /validators response; the response lists the
\* validators in the order of their start
ValidatorRow(i, s, a, t) ==
    [ account_id |-> i, stake |-> s, active |-> a, last_time |-> t, start_time |-> i ]

\* the responses of up to MaxValidators validators
Figment(Stakes, Times) ==
    UNION { { [ i \in 1..n |-> ValidatorRow(i, f[i][1], f[i][2], f[i][3]) ] :
                f \in [ 1..n -> Stakes \X BOOLEAN \X Times ] } :
            n \in 0..MaxValidators }

\* df.copy()[mask].reset_index(drop=True)
seen_since(df, t) == SelectSeq(df, LAMBDA r : r.last_time >= t)

\* a faulty variant of get_validators: the 8 hour window is tried before today
get_validators_window_first(df) ==
    LET new_df == SelectSeq(df, LAMBDA r : r.active)
    IN  IF Len(new_df) # 0 THEN new_df
        ELSE IF Len(seen_since(df, today - td)) # 0 THEN seen_since(df, today - td)
        ELSE IF Len(seen_since(df, today)) # 0 THEN seen_since(df, today)
        ELSE df

\* get_validators, lines 98-111
get_validators(df) ==
    LET new_df == SelectSeq(df, LAMBDA r : r.active)
    IN  IF Len(new_df) # 0 THEN new_df
        ELSE IF Len(seen_since(df, today)) # 0 THEN seen_since(df, today)
        ELSE IF Len(seen_since(df, today - td)) # 0 THEN seen_since(df, today - td)
        ELSE df

\* sort_values(by=col, ascending=False).reset_index(drop=True)
RECURSIVE insert_by_descending(_, _, _)
insert_by_descending(df, row, col) ==
    IF df = << >> THEN << row >>
    ELSE IF row[col] > df[1][col] THEN << row >> \o df
    ELSE << df[1] >> \o insert_by_descending(Tail(df), row, col)

RECURSIVE sort_values_descending(_, _)
sort_values_descending(df, col) ==
    IF df = << >> THEN << >>
    ELSE insert_by_descending(sort_values_descending(SubSeq(df, 1, Len(df) - 1), col),
                              df[Len(df)], col)

\* Series.cumsum()
cumsum(a) == [ i \in 1..Len(a) |-> sum(SubSeq(a, 1, i)) ]

\* cumulative > 0.33 * total_staked
above_nakamoto_line(cumulative, total_staked) == 100 * cumulative > 33 * total_staked

\* the rows of vals_sorted_stake above the Nakamoto line
above_line(validators) ==
    LET vals_sorted_stake == sort_values_descending(validators, "stake")
        cumulative == cumsum(column(vals_sorted_stake, "stake"))
        total_staked == sum(column(validators, "stake"))
    IN  { i \in 1..Len(validators) : above_nakamoto_line(cumulative[i], total_staked) }

first(S) == CHOOSE x \in S : \A y \in S : x <= y

\* a faulty variant of nakamoto_coeffecient: the index is taken as the count
nakamoto_coeffecient_index(validators) == first(above_line(validators)) - 1

\* nakamoto_coeffecient, lines 63-70: .index[0] + 1 on the 0-based index
nakamoto_coeffecient(validators) == (first(above_line(validators)) - 1) + 1

\* the variables the chart can rank by, with the order of the window's sort
RankVariables == { "stake", "start_time" }
order(value) == IF value = "start_time" THEN "ascending" ELSE "descending"

\* Vega's rank() over the sorted window: one more than the number of rows
\* sorted strictly before the row
rank(df, value, i) ==
    1 + Cardinality({ j \in 1..Len(df) :
                        IF order(value) = "ascending" THEN df[j][value] < df[i][value]
                        ELSE df[j][value] > df[i][value] })

\* Python's `a and b` of two altair expressions: both are objects, which are
\* true, so the value is b
py_and(a, b) == b

\* transform_filter(alt.datum.rank >= min_val and alt.datum.rank < max_val)
rank_filter(r, min_val, max_val) == py_and(r >= min_val, r < max_val)

\* the account_ids alt_rank_bar draws a bar for
alt_rank_bar(df, value, ranks) ==
    { df[i].account_id : i \in { j \in 1..Len(df) :
                                   rank_filter(rank(df, value, j), ranks[1], ranks[2]) } }

\* the slider "How many Governors?": a range within 0 .. number of validators
RankChoices(n) == { << lo, hi >> \in (0..n + 1) \X (0..n + 1) : lo <= hi }

NoValidators == [ validators |-> << >>, nakamoto |-> 0, value |-> "", ranks |-> << 0, 0 >>,
                  charted |-> {} ]

InitGov ==
    /\ page = "State_of_the_Unions"
    /\ page_in \in { [ data |-> d ] :
                       d \in Figment(StakeValues, { today }) \cup Figment({ 1 }, LastTimes) }
    /\ page_pc = "get_validators"
    /\ page_env = NoValidators
    /\ page_out = << >>
    /\ page_exc = ""
    /\ queries = << >>
    /\ CacheIdle
    /\ FinIdle
    /\ DecIdle
    /\ GiniIdle
    /\ ChartIdle
    /\ EpochsIdle

\* validators = get_validators(); an empty response has no stake column
GetValidators ==
    /\ page_pc = "get_validators"
    /\ IF page_in.data = << >>
       THEN /\ page_exc' = "AttributeError"
            /\ page_pc' = "raised"
            /\ UNCHANGED page_env
       ELSE /\ page_env' = [ page_env EXCEPT !.validators = get_validators(page_in.data) ]
            /\ page_pc' = "statistics"
            /\ UNCHANGED page_exc
    /\ UNCHANGED << page, page_in, page_out, queries, cacheVars, finVars, decVars,
                    giniVars, chartVars, epochsVars >>

\* lines 52-81: the overall statistics; with nothing above the line, index[0]
\* raises
OverallStatistics ==
    /\ page_pc = "statistics"
    /\ IF above_line(page_env.validators) = {}
       THEN /\ page_exc' = "IndexError"
            /\ page_pc' = "raised"
            /\ UNCHANGED << page_env, page_out >>
       ELSE /\ page_env' = [ page_env EXCEPT
                               !.nakamoto = nakamoto_coeffecient(page_env.validators) ]
            /\ page_out' = Append(page_out, "Nakamoto Coefficient")
            /\ page_pc' = "governors"
            /\ UNCHANGED page_exc
    /\ UNCHANGED << page, page_in, queries, cacheVars, finVars, decVars, giniVars,
                    chartVars, epochsVars >>

\* lines 103-118: the ranked bar chart of the chosen variable
TheGovernors ==
    /\ page_pc = "governors"
    /\ \E value \in RankVariables, ranks \in RankChoices(Len(page_env.validators)) :
         page_env' = [ page_env EXCEPT
                         !.value = value,
                         !.ranks = ranks,
                         !.charted = alt_rank_bar(
                             sort_values_descending(page_env.validators, "stake"),
                             value, ranks) ]
    /\ page_out' = Append(page_out, "The Governors")
    /\ page_pc' = "done"
    /\ UNCHANGED << page, page_in, page_exc, queries, cacheVars, finVars, decVars,
                    giniVars, chartVars, epochsVars >>

NextGov ==
    \/ GetValidators
    \/ OverallStatistics
    \/ TheGovernors

SpecGov == InitGov /\ [][NextGov]_vars

\* the largest sum k of the stakes can have
TopStakes(validators, k) ==
    LET stakes == column(validators, "stake")
        Picks  == { S \in SUBSET (1..Len(validators)) : Cardinality(S) = k }
        Total(S) == sum([ i \in 1..Len(stakes) |-> IF i \in S THEN stakes[i] ELSE 0 ])
    IN  CHOOSE m \in { Total(S) : S \in Picks } : \A S \in Picks : Total(S) <= m

C25_ChartsExactlyTheRanks ==
    page_pc = "done" =>
        LET df == sort_values_descending(page_env.validators, "stake")
        IN  page_env.charted =
              { df[i].account_id : i \in { j \in 1..Len(df) :
                  /\ page_env.ranks[1] <= rank(df, page_env.value, j)
                  /\ rank(df, page_env.value, j) < page_env.ranks[2] } }

\* the account_ids of the rows of df that satisfy keep
Ids(df, keep(_)) == { df[i].account_id : i \in { j \in 1..Len(df) : keep(df[j]) } }

\* C26: get_validators returns exactly the validators flagged active when one
\* is; otherwise those with last_time >= now if there is one; otherwise those
\* with last_time >= now - 8 hours if there is one; otherwise the full list;
\* the rows keep the order of the response, and the result is never empty.
C26_FallbackOrder ==
    page_pc \in { "statistics", "governors", "done" } =>
        LET df      == page_in.data
            res     == Ids(page_env.validators, LAMBDA r : TRUE)
            active  == Ids(df, LAMBDA r : r.active)
            now     == Ids(df, LAMBDA r : r.last_time >= 0)
            recent  == Ids(df, LAMBDA r : r.last_time >= -8)
            all     == Ids(df, LAMBDA r : TRUE)
        IN  /\ res = IF active # {} THEN active
                     ELSE IF now # {} THEN now
                     ELSE IF recent # {} THEN recent
                     ELSE all
            /\ res # {}
            /\ Len(page_env.validators) = Cardinality(res)
            /\ \A i \in 1..Len(page_env.validators) :
                 page_env.validators[i] = df[page_env.validators[i].account_id]
            /\ \A i \in 1..Len(page_env.validators) - 1 :
                 page_env.validators[i].account_id < page_env.validators[i + 1].account_id

\* nobody is active or seen since now, and only some were seen in the last
\* 8 hours: the third selection is the one returned
C26_Witness ==
    /\ page_pc = "statistics"
    /\ \A i \in 1..Len(page_in.data) :
         ~page_in.data[i].active /\ page_in.data[i].last_time < 0
    /\ \E i \in 1..Len(page_in.data) : page_in.data[i].last_time = -8
    /\ \E i \in 1..Len(page_in.data) : page_in.data[i].last_time = -9
    /\ Len(page_env.validators) < Len(page_in.data)

====
